---- MODULE Spec2Model ----
(***************************************************************************)
(* A model of pykin's scene manager (pykin/scene/scene.py) and of the      *)
(* retry loop of the Cartesian planner                                     *)
(* (pykin/planners/cartesian_planner.py).                                  *)
(*                                                                         *)
(* A 4x4 homogeneous matrix is modelled by a permutation matrix on three   *)
(* axes, written as the tuple of its permutation: np.dot is composition    *)
(* and np.linalg.inv the inverse permutation, both exact.  The group is    *)
(* not commutative, so the order of a product is observable.               *)
(***************************************************************************)
EXTENDS Integers, Sequences, FiniteSets, TLC

VARIABLES scene, last, logical_states, planner, ik, calc, pick

sceneVars == <<scene, last>>

----------------------------------------------------------------------------
(* numpy: matrices *)

Pose == { <<1, 2, 3>>, <<1, 3, 2>>, <<2, 1, 3>>, <<2, 3, 1>>, <<3, 1, 2>>, <<3, 2, 1>> }

eye == <<1, 2, 3>>

dot(A, B) == << A[B[1]], A[B[2]], A[B[3]] >>

inv(A) == CHOOSE B \in Pose : dot(A, B) = eye

\* a matrix whose shape is not (4,4)
BadShapePose == <<1, 2>>

\* the h_mat=None argument of add_object
NoneArg == << >>

\* an attribute that was never assigned (reading it raises AttributeError)
Unset == <<0, 0, 0>>

get_absolute_transform(A, B) == dot(B, inv(A))

get_relative_transform(A, B) == dot(inv(A), B)

----------------------------------------------------------------------------
(* dictionaries: a dict is a function whose domain is its key set *)

EmptyDict == [k \in {} |-> eye]

Put(d, k, v) == [x \in (DOMAIN d) \cup {k} |-> IF x = k THEN v ELSE d[x]]

Pop(d, k) == [x \in (DOMAIN d) \ {k} |-> d[x]]

----------------------------------------------------------------------------
(* the robot handed to add_robot *)

ObjNames == {"A"}

ArmLinks == {"link1"}

GripperLinks == {"hand"}

gripper_name == "hand"

geom == "collision"

\* joint configurations are 0..MaxTheta
MaxTheta == 1

Thetas == 0..MaxTheta

rotZ == <<2, 3, 1>>

handOffset == <<2, 1, 3>>

tcpOffset == <<1, 3, 2>>

RECURSIVE Pow(_, _)
Pow(A, n) == IF n = 0 THEN eye ELSE dot(A, Pow(A, n - 1))

\* forward kinematics of one link
forward_kin(link, thetas) ==
    IF link \in GripperLinks THEN dot(Pow(rotZ, thetas + 1), handOffset)
    ELSE Pow(rotZ, thetas)

----------------------------------------------------------------------------
(* CollisionManager: geometry entries keyed by name, each with a transform *)

NoneMngr == [alive |-> FALSE, objs |-> EmptyDict]

CollisionManager == [alive |-> TRUE, objs |-> EmptyDict]

cm_add_object(m, name, h_mat) == [m EXCEPT !.objs = Put(@, name, h_mat)]

cm_remove_object(m, name) == [m EXCEPT !.objs = Pop(@, name)]

cm_set_transform(m, name, h_mat) == [m EXCEPT !.objs = Put(@, name, h_mat)]

\* set_transform(link, info[3]) for every link of info that the manager holds
cm_sync(m, info) ==
    [m EXCEPT !.objs = [k \in DOMAIN @ |-> IF k \in DOMAIN info THEN info[k] ELSE @[k]]]

----------------------------------------------------------------------------
(* SingleArm and its Gripper *)

NoGripper == [info |-> EmptyDict, is_attached |-> FALSE, attached_obj_name |-> "None"]

NoRobot ==
    [present |-> FALSE, has_gripper |-> FALSE,
     info |-> [collision |-> EmptyDict, visual |-> EmptyDict],
     gripper |-> NoGripper]

init_qpos == 0

SingleArm(has_gripper) ==
    [present |-> TRUE, has_gripper |-> has_gripper,
     info |-> [collision |-> [l \in ArmLinks \cup GripperLinks |-> forward_kin(l, init_qpos)],
               visual |-> [l \in ArmLinks \cup GripperLinks |-> forward_kin(l, init_qpos)]],
     gripper |-> IF has_gripper
                 THEN [info |-> [l \in GripperLinks |-> forward_kin(l, init_qpos)],
                       is_attached |-> FALSE, attached_obj_name |-> "None"]
                 ELSE NoGripper]

\* the live pose of every link follows the joint angles; other entries stay
link_poses(info, thetas) ==
    [k \in DOMAIN info |->
        IF k \in ArmLinks \cup GripperLinks THEN forward_kin(k, thetas) ELSE info[k]]

robot_set_transform(r, thetas) ==
    [r EXCEPT !.info.collision = link_poses(@, thetas),
              !.info.visual = link_poses(@, thetas),
              !.gripper.info = [k \in DOMAIN @ |->
                                  IF k \in GripperLinks THEN forward_kin(k, thetas) ELSE @[k]]]

gripper_get_gripper_pose(g) == g.info[gripper_name]

\* every entry of the gripper moves rigidly with the gripper frame
gripper_set_gripper_pose(g, pose) ==
    LET T == get_absolute_transform(g.info[gripper_name], pose)
    IN  [g EXCEPT !.info = [k \in DOMAIN @ |-> dot(T, @[k])]]

gripper_get_gripper_tcp_pose(g) == dot(g.info[gripper_name], tcpOffset)

gripper_set_gripper_tcp_pose(g, pose) == gripper_set_gripper_pose(g, dot(pose, inv(tcpOffset)))

----------------------------------------------------------------------------
(* SceneManager *)

UnsetName == "<unset>"

\* SceneManager.__init__
SceneManager ==
    [objs |-> EmptyDict,
     robot |-> NoRobot,
     obj_collision_mngr |-> CollisionManager,
     robot_collision_mngr |-> NoneMngr,
     gripper_collision_mngr |-> NoneMngr,
     is_attached |-> FALSE,
     attached_obj_name |-> UnsetName,
     transform_bet_gripper_n_obj |-> Unset]

Return(s) == [s |-> s, res |-> "ok"]

Raise(s, err) == [s |-> s, res |-> err]

\* add_object with the duplicate-name check made after the registration
add_object_check_after_write(s, name, h_mat) ==
    LET pose == IF h_mat = NoneArg THEN eye ELSE h_mat
        s1 == [s EXCEPT !.objs = Put(@, name, pose)]
    IN  IF name \in DOMAIN s.objs THEN Raise(s1, "ValueError")
        ELSE IF ~s1.obj_collision_mngr.alive THEN Raise(s1, "AttributeError")
        ELSE Return([s1 EXCEPT !.obj_collision_mngr = cm_add_object(@, name, pose)])

\* SceneManager.add_object
add_object(s, name, h_mat) ==
    IF name \in DOMAIN s.objs THEN Raise(s, "ValueError")
    ELSE LET pose == IF h_mat = NoneArg THEN eye ELSE h_mat
             s1 == [s EXCEPT !.objs = Put(@, name, pose)]
         IN  IF ~s1.obj_collision_mngr.alive THEN Raise(s1, "AttributeError")
             ELSE Return([s1 EXCEPT !.obj_collision_mngr = cm_add_object(@, name, pose)])

\* the default thetas=[] of add_robot
NoThetas == -1

\* SceneManager.add_robot
add_robot(s, has_gripper, thetas) ==
    IF s.robot.present THEN Raise(s, "ValueError")
    ELSE LET r0 == SingleArm(has_gripper)
             r == IF thetas \in Thetas THEN robot_set_transform(r0, thetas) ELSE r0
             s1 == [s EXCEPT !.robot = r,
                             !.robot_collision_mngr =
                                 [alive |-> TRUE, objs |-> r.info[geom]]]
         IN  IF r.has_gripper
             THEN Return([s1 EXCEPT !.gripper_collision_mngr =
                                        [alive |-> TRUE, objs |-> r.gripper.info]])
             ELSE Return(s1)

\* SceneManager.remove_object
remove_object(s, name) ==
    IF name \notin DOMAIN s.objs THEN Raise(s, "ValueError")
    ELSE LET s1 == [s EXCEPT !.objs = Pop(@, name)]
         IN  IF ~s1.obj_collision_mngr.alive THEN Raise(s1, "AttributeError")
             ELSE Return([s1 EXCEPT !.obj_collision_mngr = cm_remove_object(@, name)])

\* SceneManager.get_object_pose
get_object_pose(s, name) ==
    IF name \notin DOMAIN s.objs THEN Raise(s, "ValueError") ELSE Return(s)

\* SceneManager.set_object_pose
set_object_pose(s, name, pose) ==
    IF name \notin DOMAIN s.objs THEN Raise(s, "ValueError")
    ELSE IF pose \notin Pose THEN Raise(s, "ValueError")
    ELSE LET s1 == [s EXCEPT !.objs = Put(@, name, pose)]
         IN  IF ~s1.obj_collision_mngr.alive THEN Raise(s1, "AttributeError")
             ELSE Return([s1 EXCEPT !.obj_collision_mngr = cm_set_transform(@, name, pose)])

\* SceneManager.get_gripper_pose, on a scene whose robot has a gripper
get_gripper_pose(s) == gripper_get_gripper_pose(s.robot.gripper)

\* SceneManager.attach_object_on_gripper
attach_object_on_gripper(s, name, only_gripper) ==
    IF ~s.robot.present THEN Raise(s, "ValueError")
    ELSE IF name \notin DOMAIN s.objs THEN Raise(s, "ValueError")
    ELSE
    LET s1 == [s EXCEPT !.is_attached = TRUE] IN
    \* line 96: robot.gripper is None on a robot without a gripper
    IF ~s1.robot.has_gripper THEN Raise(s1, "AttributeError")
    ELSE
    LET s2 == [s1 EXCEPT !.robot.gripper.is_attached = TRUE,
                         !.attached_obj_name = name,
                         !.robot.gripper.attached_obj_name = name] IN
    IF ~s2.obj_collision_mngr.alive THEN Raise(s2, "AttributeError")
    ELSE
    LET h_mat == s2.objs[name]
        s3 == [s2 EXCEPT !.obj_collision_mngr = cm_remove_object(@, name)]
        eef_pose == get_gripper_pose(s3)
        s4 == [s3 EXCEPT !.transform_bet_gripper_n_obj =
                             get_relative_transform(eef_pose, h_mat)]
        s5 == IF ~only_gripper
              THEN [s4 EXCEPT !.robot_collision_mngr = cm_add_object(@, name, h_mat),
                              !.robot.info.collision = Put(@, name, h_mat),
                              !.robot.info.visual = Put(@, name, h_mat)]
              ELSE s4
        s6 == [s5 EXCEPT !.gripper_collision_mngr = cm_add_object(@, name, h_mat),
                         !.robot.gripper.info = Put(@, name, h_mat)]
    IN  Return([s6 EXCEPT !.objs = Pop(@, name)])

\* CollisionManager.remove_object of a name the manager does not hold either
\* raises ValueError or does nothing: absent_raises chooses
detach_gripper_part(s, absent_raises) ==
    IF s.attached_obj_name = UnsetName THEN Raise(s, "AttributeError")
    ELSE IF ~s.gripper_collision_mngr.alive THEN Raise(s, "AttributeError")
    ELSE IF s.attached_obj_name \notin DOMAIN s.gripper_collision_mngr.objs /\ absent_raises
         THEN Raise(s, "ValueError")
    ELSE
    LET s1 == [s EXCEPT !.gripper_collision_mngr = cm_remove_object(@, s.attached_obj_name)] IN
    IF ~s1.robot.has_gripper THEN Raise(s1, "AttributeError")
    ELSE IF s1.attached_obj_name \notin DOMAIN s1.robot.gripper.info THEN Raise(s1, "KeyError")
    ELSE Return([s1 EXCEPT !.robot.gripper.info = Pop(@, s.attached_obj_name),
                           !.is_attached = FALSE,
                           !.robot.gripper.is_attached = FALSE,
                           !.robot.gripper.attached_obj_name = "None"])

\* SceneManager.detach_object_from_gripper
detach_object_from_gripper(s, only_gripper, absent_raises) ==
    IF ~s.robot.present THEN Raise(s, "ValueError")
    ELSE IF only_gripper THEN detach_gripper_part(s, absent_raises)
    ELSE IF s.attached_obj_name = UnsetName THEN Raise(s, "AttributeError")
    ELSE IF s.attached_obj_name \notin DOMAIN s.robot_collision_mngr.objs /\ absent_raises
         THEN Raise(s, "ValueError")
    ELSE
    LET n == s.attached_obj_name
        s1 == [s EXCEPT !.robot_collision_mngr = cm_remove_object(@, n)] IN
    IF n \notin DOMAIN s1.robot.info.collision THEN Raise(s1, "KeyError")
    ELSE
    LET s2 == [s1 EXCEPT !.robot.info.collision = Pop(@, n)] IN
    IF n \notin DOMAIN s2.robot.info.visual THEN Raise(s2, "KeyError")
    ELSE detach_gripper_part([s2 EXCEPT !.robot.info.visual = Pop(@, n)], absent_raises)

\* lines 191-194 of set_robot_eef_pose: the attached object follows the gripper
move_attached_object(s) ==
    IF ~s.robot.has_gripper THEN Raise(s, "ValueError")
    ELSE IF s.transform_bet_gripper_n_obj = Unset THEN Raise(s, "AttributeError")
    ELSE IF s.attached_obj_name = UnsetName THEN Raise(s, "AttributeError")
    ELSE
    LET n == s.attached_obj_name
        pose == dot(get_gripper_pose(s), s.transform_bet_gripper_n_obj) IN
    IF n \notin DOMAIN s.robot.info.collision THEN Raise(s, "KeyError")
    ELSE
    LET s1 == [s EXCEPT !.robot.info.collision = Put(@, n, pose)] IN
    IF n \notin DOMAIN s1.robot.info.visual THEN Raise(s1, "KeyError")
    ELSE
    LET s2 == [s1 EXCEPT !.robot.info.visual = Put(@, n, pose)] IN
    IF n \notin DOMAIN s2.robot.gripper.info THEN Raise(s2, "KeyError")
    ELSE Return([s2 EXCEPT !.robot.gripper.info = Put(@, n, pose)])

\* SceneManager.set_robot_eef_pose
set_robot_eef_pose(s, thetas) ==
    IF ~s.robot.present THEN Raise(s, "ValueError")
    ELSE
    LET s1 == [s EXCEPT !.robot = robot_set_transform(@, thetas)]
        info == s1.robot.info[geom]
        s2 == [s1 EXCEPT !.robot_collision_mngr = cm_sync(@, info),
                         !.gripper_collision_mngr =
                             IF s1.robot.has_gripper THEN cm_sync(@, info) ELSE @]
    IN  IF s2.is_attached THEN move_attached_object(s2) ELSE Return(s2)

\* SceneManager.set_gripper_pose
set_gripper_pose(s, pose) ==
    IF ~s.robot.present THEN Raise(s, "AttributeError")
    ELSE IF ~s.robot.has_gripper THEN Raise(s, "ValueError")
    ELSE
    LET s1 == [s EXCEPT !.robot.gripper = gripper_set_gripper_pose(@, pose)]
    IN  Return([s1 EXCEPT !.gripper_collision_mngr = cm_sync(@, s1.robot.gripper.info)])

\* SceneManager.set_gripper_tcp_pose
set_gripper_tcp_pose(s, pose) ==
    IF ~s.robot.present THEN Raise(s, "AttributeError")
    ELSE IF ~s.robot.has_gripper THEN Raise(s, "ValueError")
    ELSE
    LET s1 == [s EXCEPT !.robot.gripper = gripper_set_gripper_tcp_pose(@, pose)]
    IN  Return([s1 EXCEPT !.gripper_collision_mngr = cm_sync(@, s1.robot.gripper.info)])

\* SceneManager.reset
reset(s) ==
    LET s1 == [s EXCEPT !.obj_collision_mngr = NoneMngr, !.objs = EmptyDict]
        s2 == IF s1.robot.present
              THEN [s1 EXCEPT !.robot_collision_mngr = NoneMngr, !.robot = NoRobot]
              ELSE s1
    IN  \* line 362 reads self.robot.has_gripper
        IF ~s2.robot.present THEN Raise(s2, "AttributeError")
        ELSE IF s2.robot.has_gripper
             THEN Return([s2 EXCEPT !.gripper_collision_mngr = NoneMngr,
                                    !.robot.gripper = NoGripper])
             ELSE Return(s2)

----------------------------------------------------------------------------
(* the calls a client makes on the scene *)

\* poses handed in by the caller
InputPoses == { <<2, 1, 3>>, <<2, 3, 1>> }

NoPose == << >>

Last(op, res, name, only_gripper, pose) ==
    [op |-> op, res |-> res, name |-> name, only_gripper |-> only_gripper,
     bad_shape |-> (pose = BadShapePose)]

AddObject ==
    \E name \in ObjNames, h_mat \in InputPoses \cup {NoneArg} :
        LET r == add_object(scene, name, h_mat)
        IN  /\ scene' = r.s
            /\ last' = Last("add_object", r.res, name, FALSE, h_mat)
            /\ UNCHANGED <<logical_states, planner, ik, calc, pick>>

AddRobot ==
    \E has_gripper \in BOOLEAN, thetas \in Thetas \cup {NoThetas} :
        LET r == add_robot(scene, has_gripper, thetas)
        IN  /\ scene' = r.s
            /\ last' = Last("add_robot", r.res, "-", FALSE, NoPose)
            /\ UNCHANGED <<logical_states, planner, ik, calc, pick>>

RemoveObject ==
    \E name \in ObjNames :
        LET r == remove_object(scene, name)
        IN  /\ scene' = r.s
            /\ last' = Last("remove_object", r.res, name, FALSE, NoPose)
            /\ UNCHANGED <<logical_states, planner, ik, calc, pick>>

GetObjectPose ==
    \E name \in ObjNames :
        LET r == get_object_pose(scene, name)
        IN  /\ scene' = r.s
            /\ last' = Last("get_object_pose", r.res, name, FALSE, NoPose)
            /\ UNCHANGED <<logical_states, planner, ik, calc, pick>>

SetObjectPose ==
    \E name \in ObjNames, pose \in InputPoses \cup {BadShapePose} :
        LET r == set_object_pose(scene, name, pose)
        IN  /\ scene' = r.s
            /\ last' = Last("set_object_pose", r.res, name, FALSE, pose)
            /\ UNCHANGED <<logical_states, planner, ik, calc, pick>>

AttachObjectOnGripper ==
    \E name \in ObjNames, only_gripper \in BOOLEAN :
        LET r == attach_object_on_gripper(scene, name, only_gripper)
        IN  /\ scene' = r.s
            /\ last' = Last("attach_object_on_gripper", r.res, name, only_gripper, NoPose)
            /\ UNCHANGED <<logical_states, planner, ik, calc, pick>>

DetachObjectFromGripper ==
    \E only_gripper \in BOOLEAN, absent_raises \in BOOLEAN :
        LET r == detach_object_from_gripper(scene, only_gripper, absent_raises)
        IN  /\ scene' = r.s
            /\ last' = Last("detach_object_from_gripper", r.res, "-", only_gripper, NoPose)
            /\ UNCHANGED <<logical_states, planner, ik, calc, pick>>

SetRobotEefPose ==
    \E thetas \in Thetas :
        LET r == set_robot_eef_pose(scene, thetas)
        IN  /\ scene' = r.s
            /\ last' = Last("set_robot_eef_pose", r.res, "-", FALSE, NoPose)
            /\ UNCHANGED <<logical_states, planner, ik, calc, pick>>

SetGripperPose ==
    \E pose \in InputPoses :
        LET r == set_gripper_pose(scene, pose)
        IN  /\ scene' = r.s
            /\ last' = Last("set_gripper_pose", r.res, "-", FALSE, pose)
            /\ UNCHANGED <<logical_states, planner, ik, calc, pick>>

SetGripperTcpPose ==
    \E pose \in InputPoses :
        LET r == set_gripper_tcp_pose(scene, pose)
        IN  /\ scene' = r.s
            /\ last' = Last("set_gripper_tcp_pose", r.res, "-", FALSE, pose)
            /\ UNCHANGED <<logical_states, planner, ik, calc, pick>>

Reset ==
    LET r == reset(scene)
    IN  /\ scene' = r.s
        /\ last' = Last("reset", r.res, "-", FALSE, NoPose)
        /\ UNCHANGED <<logical_states, planner, ik, calc, pick>>

----------------------------------------------------------------------------
(* the logical-state graph: an OrderedDict from a name to a dict of states; *)
(* keys is its insertion order.  An Object is referred to by its name.      *)

EmptyStates == [keys |-> << >>, st |-> EmptyDict]

InSeq(x, q) == \E i \in 1..Len(q) : q[i] = x

Has(d, k) == k \in DOMAIN d

\* dict.get(key) is truthy: the key is there and its value is not empty
Truthy(d, k) == Has(d, k) /\ d[k] # << >>

\* update_on with the append left out when the support list had to be made
update_on_without_first_append(objs, st, object_name) ==
    IF ~Has(st[object_name], "on") THEN Return(st)
    ELSE
    LET b == st[object_name]["on"] IN
    IF ~Has(st, b) THEN Raise(st, "KeyError")
    ELSE IF ~Truthy(st[b], "support")
         THEN Return([st EXCEPT ![b] = Put(@, "support", << >>)])
    ELSE IF ~Has(objs, object_name) THEN Raise(st, "KeyError")
    ELSE IF ~InSeq(object_name, st[b]["support"])
         THEN Return([st EXCEPT ![b] = Put(@, "support", Append(@["support"], object_name))])
         ELSE Return(st)

\* lines 244-248 for one entry of the loop
update_on(objs, st, object_name) ==
    IF ~Has(st[object_name], "on") THEN Return(st)
    ELSE
    LET b == st[object_name]["on"] IN
    IF ~Has(st, b) THEN Raise(st, "KeyError")
    ELSE
    LET st1 == IF ~Truthy(st[b], "support")
               THEN [st EXCEPT ![b] = Put(@, "support", << >>)]
               ELSE st IN
    IF ~Has(objs, object_name) THEN Raise(st1, "KeyError")
    ELSE IF ~InSeq(object_name, st1[b]["support"])
         THEN Return([st1 EXCEPT ![b] = Put(@, "support", Append(@["support"], object_name))])
         ELSE Return(st1)

\* lines 250-251 for one entry of the loop
update_holding(st, object_name) ==
    IF ~Has(st[object_name], "holding") THEN Return(st)
    ELSE
    LET x == st[object_name]["holding"] IN
    IF ~Has(st, x) THEN Raise(st, "KeyError")
    ELSE Return([st EXCEPT ![x] = Put(@, "held", TRUE)])

\* the loop of update_logical_states from its i-th item on
RECURSIVE update_from(_, _, _, _)
update_from(objs, keys, st, i) ==
    IF i > Len(keys) THEN Return(st)
    ELSE LET r1 == update_on(objs, st, keys[i]) IN
         IF r1.res # "ok" THEN r1
         ELSE LET r2 == update_holding(r1.s, keys[i]) IN
              IF r2.res # "ok" THEN r2
              ELSE update_from(objs, keys, r2.s, i + 1)

\* SceneManager.update_logical_states
update_logical_states(objs, ls) ==
    LET r == update_from(objs, ls.keys, ls.st, 1)
    IN  [s |-> [ls EXCEPT !.st = r.s], res |-> r.res]

\* logical_states[name][key] = value, the entry made when it is missing
set_logical_state(ls, name, key, value) ==
    IF Has(ls.st, name)
    THEN [ls EXCEPT !.st[name] = Put(@, key, value)]
    ELSE [keys |-> Append(ls.keys, name),
          st |-> Put(ls.st, name, Put(EmptyDict, key, value))]

\* pick.py line 145: logical_states[name].clear()
clear_logical_state(ls, name) == [ls EXCEPT !.st[name] = EmptyDict]

RECURSIVE Remove(_, _)
Remove(q, x) ==
    IF q = << >> THEN << >>
    ELSE IF Head(q) = x THEN Tail(q)
    ELSE <<Head(q)>> \o Remove(Tail(q), x)

\* pick.py line 142: logical_states[b]["support"].remove(obj)
remove_support(ls, b, name) == [ls EXCEPT !.st[b] = Put(@, "support", Remove(@["support"], name))]

LogicalObjNames == {"A", "B"}

LAddObject ==
    \E name \in LogicalObjNames :
        LET r == add_object(scene, name, NoneArg)
        IN  /\ scene' = r.s
            /\ last' = Last("add_object", r.res, "-", FALSE, NoneArg)
            /\ UNCHANGED <<logical_states, planner, ik, calc, pick>>

LRemoveObject ==
    \E name \in LogicalObjNames :
        LET r == remove_object(scene, name)
        IN  /\ scene' = r.s
            /\ last' = Last("remove_object", r.res, "-", FALSE, NoPose)
            /\ UNCHANGED <<logical_states, planner, ik, calc, pick>>

SetOn ==
    \E name \in LogicalObjNames, b \in LogicalObjNames :
        /\ logical_states' = set_logical_state(logical_states, name, "on", b)
        /\ last' = Last("edit", "ok", "-", FALSE, NoPose)
        /\ UNCHANGED <<scene, planner, ik, calc, pick>>

SetHolding ==
    \E x \in LogicalObjNames :
        /\ logical_states' = set_logical_state(logical_states, gripper_name, "holding", x)
        /\ last' = Last("edit", "ok", "-", FALSE, NoPose)
        /\ UNCHANGED <<scene, planner, ik, calc, pick>>

ClearLogicalState ==
    \E name \in DOMAIN logical_states.st :
        /\ logical_states' = clear_logical_state(logical_states, name)
        /\ last' = Last("edit", "ok", "-", FALSE, NoPose)
        /\ UNCHANGED <<scene, planner, ik, calc, pick>>

RemoveSupport ==
    \E b \in DOMAIN logical_states.st, name \in LogicalObjNames :
        /\ Has(logical_states.st[b], "support")
        /\ InSeq(name, logical_states.st[b]["support"])
        /\ logical_states' = remove_support(logical_states, b, name)
        /\ last' = Last("edit", "ok", "-", FALSE, NoPose)
        /\ UNCHANGED <<scene, planner, ik, calc, pick>>

UpdateLogicalStates ==
    LET r == update_logical_states(scene.objs, logical_states)
    IN  /\ logical_states' = r.s
        /\ last' = Last("update_logical_states", r.res, "-", FALSE, NoPose)
        /\ UNCHANGED <<scene, planner, ik, calc, pick>>

----------------------------------------------------------------------------
(* CartesianPlanner on an arm with one prismatic joint: the end-effector    *)
(* position is the joint value, the Jacobian is [1].  Lengths are counted   *)
(* in thousandths, and a quotient is rounded toward zero.                   *)

Quot(a, b) == IF a >= 0 THEN a \div b ELSE -((-a) \div b)

Abs(a) == IF a >= 0 THEN a ELSE -a

\* _compute_path_and_target_pose: total_cnt
total_cnt == 10

\* get_path_in_joinst_space: pos_sensitivity=0.03
pos_sensitivity == 30

\* the number of waypoints is 1..MaxNStep
MaxNStep == 3

Goals == {40, 90, 300}

\* the joint values at which the self-collision manager reports a collision
Colliding(cfg) == IF cfg.self_collision_manager THEN 50..70 ELSE {}

\* the joint values at which a link of the robot touches an object of the
\* obstacle collision manager
ObstacleColliding(cfg) == IF cfg.obstacle_collision_manager THEN 10..20 ELSE {}

\* Planner._check_q_in_limits
check_q_in_limits(cfg, q) == cfg.q_lower <= q /\ q <= cfg.q_upper

\* CartesianPlanner.collision_free
collision_free(cfg, new_q) ==
    IF ~cfg.self_collision_manager THEN TRUE
    ELSE new_q \notin Colliding(cfg)

\* t_utils.get_linear_interpoation at delta_t = step / n_step
get_linear_path(cur, goal, n_step) ==
    [step \in 1..n_step |-> cur + Quot((goal - cur) * step, n_step)]

\* dq = damping * Jh * err with Jh = pinv(J'J + damping^2 I) J', damping = 1/2
dq_of(err) == Quot(2 * err, 5)

\* t_utils.compute_pose_error of two positions
compute_pose_error(a, b) == Abs(a - b)

NonePath == [none |-> TRUE, v |-> << >>]

Path(v) == [none |-> FALSE, v |-> v]

PlannerIdle ==
    [pc |-> "idle", cfg |-> [self_collision_manager |-> FALSE,
                             obstacle_collision_manager |-> FALSE, q_lower |-> 0, q_upper |-> 0,
                             n_step |-> 1, every |-> 1, current_q |-> 0, goal |-> 0],
     cnt |-> 0, cur_qpos |-> 0, cur_fk |-> 0, waypoints |-> << >>, step |-> 0,
     paths |-> NonePath, target_posistions |-> NonePath, is_get_path |-> FALSE]

PlannerConfigs ==
    [self_collision_manager : BOOLEAN, obstacle_collision_manager : BOOLEAN,
     q_lower : {-500}, q_upper : {20, 500},
     n_step : 1..MaxNStep, every : {1, 2}, current_q : {0}, goal : Goals]

\* get_path_in_joinst_space, lines 61-68
get_path_in_joinst_space(cfg) ==
    [PlannerIdle EXCEPT !.pc = "sweep", !.cfg = cfg, !.cur_qpos = cfg.current_q,
                        !.waypoints = get_linear_path(cfg.current_q, cfg.goal, cfg.n_step)]

\* lines 89-96: the head of one sweep
sweep_begin(p) ==
    [p EXCEPT !.pc = "step", !.cnt = @ + 1, !.cur_fk = p.cur_qpos, !.step = 0,
              !.paths = Path(<<p.cur_qpos>>), !.target_posistions = Path(<<p.cur_qpos>>)]

\* sweep_step with the joint-limit check left out
sweep_step_without_limit_check(p) ==
    LET pos == p.waypoints[p.step + 1]
        err_pose == pos - p.cur_fk
        q == p.cur_qpos + dq_of(err_pose)
        p1 == [p EXCEPT !.cur_qpos = q, !.step = @ + 1]
    IN  IF ~collision_free(p.cfg, q) THEN p1
        ELSE LET p2 == [p1 EXCEPT !.cur_fk = q]
             IN  IF p.step % p.cfg.every = 0 \/ p.step = Len(p.waypoints) - 1
                 THEN [p2 EXCEPT !.paths = Path(Append(@.v, q)),
                                 !.target_posistions = Path(Append(@.v, pos))]
                 ELSE p2

\* lines 98-120: one waypoint of the sweep
sweep_step(p) ==
    LET pos == p.waypoints[p.step + 1]
        err_pose == pos - p.cur_fk
        q == p.cur_qpos + dq_of(err_pose)
        p1 == [p EXCEPT !.cur_qpos = q, !.step = @ + 1]
    IN  IF ~collision_free(p.cfg, q) THEN p1
        ELSE IF ~check_q_in_limits(p.cfg, q) THEN p1
        ELSE LET p2 == [p1 EXCEPT !.cur_fk = q]
             IN  IF p.step % p.cfg.every = 0 \/ p.step = Len(p.waypoints) - 1
                 THEN [p2 EXCEPT !.paths = Path(Append(@.v, q)),
                                 !.target_posistions = Path(Append(@.v, pos))]
                 ELSE p2

\* sweep_end with the paths of the last sweep kept when the retries run out
sweep_end_keeps_paths(p) ==
    LET err == compute_pose_error(p.cfg.goal, p.cur_fk)
    IN  IF err < pos_sensitivity THEN [p EXCEPT !.pc = "return"]
        ELSE IF p.cnt > total_cnt THEN [p EXCEPT !.pc = "return"]
        ELSE [p EXCEPT !.pc = "sweep"]

\* lines 122-134: the end of one sweep
sweep_end(p) ==
    LET err == compute_pose_error(p.cfg.goal, p.cur_fk)
    IN  IF err < pos_sensitivity THEN [p EXCEPT !.pc = "return"]
        ELSE IF p.cnt > total_cnt
             THEN [p EXCEPT !.pc = "return", !.paths = NonePath,
                            !.target_posistions = NonePath]
             ELSE [p EXCEPT !.pc = "sweep"]

\* get_path_in_joinst_space, lines 72-75
return_path(p) == [p EXCEPT !.pc = "done", !.is_get_path = ~p.paths.none]

GetPath ==
    /\ planner.pc = "idle"
    /\ \E cfg \in PlannerConfigs : planner' = get_path_in_joinst_space(cfg)
    /\ UNCHANGED <<scene, last, logical_states, ik, calc, pick>>

SweepBegin ==
    /\ planner.pc = "sweep"
    /\ planner' = sweep_begin(planner)
    /\ UNCHANGED <<scene, last, logical_states, ik, calc, pick>>

SweepStep ==
    /\ planner.pc = "step"
    /\ planner.step < Len(planner.waypoints)
    /\ planner' = sweep_step(planner)
    /\ UNCHANGED <<scene, last, logical_states, ik, calc, pick>>

SweepEnd ==
    /\ planner.pc = "step"
    /\ planner.step = Len(planner.waypoints)
    /\ planner' = sweep_end(planner)
    /\ UNCHANGED <<scene, last, logical_states, ik, calc, pick>>

ReturnPath ==
    /\ planner.pc = "return"
    /\ planner' = return_path(planner)
    /\ UNCHANGED <<scene, last, logical_states, ik, calc, pick>>

----------------------------------------------------------------------------
(* Kinematics._compute_IK_NR and _compute_IK_LM on a chain with one joint.  *)
(* Joint values and positions are counted in hundredths.  The sum and the   *)
(* difference of two floats are rounded to MantissaBits significant bits,   *)
(* ties to even, as IEEE arithmetic rounds them to 53.                      *)

Scale == 100

MantissaBits == 4

RECURSIVE BitLength(_)
BitLength(n) == IF n = 0 THEN 0 ELSE 1 + BitLength(n \div 2)

\* the spacing of the floats around a: 2^(BitLength(a) - MantissaBits)
RECURSIVE Ulp(_)
Ulp(a) == IF BitLength(a) <= MantissaBits THEN 1 ELSE 2 * Ulp(a \div 2)

\* the float nearest to x
fl(x) ==
    LET a == Abs(x)
        u == Ulp(a)
        lo == (a \div u) * u
        r == a - lo
        up == IF 2 * r > u THEN TRUE
              ELSE IF 2 * r < u THEN FALSE
              ELSE (a \div u) % 2 = 1
        m == IF up THEN lo + u ELSE lo
    IN  IF x >= 0 THEN m ELSE -m

\* the chains: the end-effector position is q, or q squared
Chains == {"linear", "quadratic"}

\* Kinematics.forward_kinematics: the position of the last link
forward_kinematics(chain, q) ==
    IF chain = "linear" THEN q ELSE fl(Quot(q * q, Scale))

\* jac.calc_jacobian: d position / d q, times Scale
calc_jacobian(chain, q) == IF chain = "linear" THEN Scale ELSE 2 * q

\* calc_pose_error: the position row; the chain does not rotate
calc_pose_error(tar_pose, cur_pose) == fl(tar_pose - cur_pose)

\* _compute_IK_NR: EPS = 1e-6, below one hundredth
NR_EPS == 0

\* _compute_IK_LM: EPS = 1e-12, below one unit of Ek
LM_EPS == 0

\* the iteration caps handed in are 1..MaxIter
MaxIter == 3

IkIdle ==
    [pc |-> "idle", method |-> "NR", chain |-> "linear", target |-> 0, maxIter |-> 0,
     iterator |-> 0, current_joints |-> 0, err |-> 0, Ek |-> 0, dq |-> 0,
     iterates |-> << >>, rejected |-> FALSE]

IkInputs ==
    [method : {"NR", "LM"}, chain : Chains, target : {-48, 96, 144}, seed : {10, 48, 128},
     maxIter : 1..MaxIter]

\* err^T We err with We = diag(1/0.3, ...), in units of 1 / (0.3 Scale^2)
Ek_of(err) == err * err

\* lines 125-139 and 177-194: the error at the seed
ik_begin(in) ==
    LET err == calc_pose_error(in.target, forward_kinematics(in.chain, in.seed))
    IN  [IkIdle EXCEPT !.pc = "loop", !.method = in.method, !.chain = in.chain,
                       !.target = in.target, !.maxIter = in.maxIter,
                       !.current_joints = in.seed, !.err = err,
                       !.Ek = IF in.method = "LM" THEN Ek_of(err) ELSE 0,
                       !.iterates = <<in.seed>>]

\* dq = lamb * pinv(J) * err_pose with lamb = 0.5; pinv of a zero J is zero
nr_dq(J, err) == IF J = 0 THEN 0 ELSE Quot(Scale * err, 2 * J)

\* lines 142-159: one pass of the while loop of _compute_IK_NR
nr_step(k) ==
    IF ~(Abs(k.err) > NR_EPS) THEN [k EXCEPT !.pc = "return"]
    ELSE IF k.iterator + 1 > k.maxIter
         THEN [k EXCEPT !.pc = "return", !.iterator = @ + 1]
    ELSE
    LET dq == nr_dq(calc_jacobian(k.chain, k.current_joints), k.err)
        q == fl(k.current_joints + dq)
    IN  [k EXCEPT !.iterator = @ + 1, !.dq = dq, !.current_joints = q,
                  !.err = calc_pose_error(k.target, forward_kinematics(k.chain, q)),
                  !.iterates = Append(@, q)]

\* dq = pinv(J'WeJ + lamb Wn) J'We err with lamb = Ek + 0.002
lm_dq(J, err, Ek) == Quot(Scale * J * err, J * J + Ek + 6)

\* lm_step with a step of equal Ek accepted
lm_step_accepts_equal_Ek(k) ==
    IF ~(k.Ek > LM_EPS) THEN [k EXCEPT !.pc = "return"]
    ELSE IF k.iterator + 1 > k.maxIter
         THEN [k EXCEPT !.pc = "return", !.iterator = @ + 1]
    ELSE
    LET dq == lm_dq(calc_jacobian(k.chain, k.current_joints), k.err, k.Ek)
        q == fl(k.current_joints + dq)
        err == calc_pose_error(k.target, forward_kinematics(k.chain, q))
        Ek2 == Ek_of(err)
    IN  IF Ek2 <= k.Ek
        THEN [k EXCEPT !.iterator = @ + 1, !.dq = dq, !.current_joints = q,
                       !.err = err, !.Ek = Ek2, !.iterates = Append(@, q)]
        ELSE [k EXCEPT !.iterator = @ + 1, !.dq = dq, !.current_joints = fl(q - dq),
                       !.err = err, !.iterates = Append(@, q),
                       !.rejected = TRUE, !.pc = "return"]

\* lines 197-226: one pass of the while loop of _compute_IK_LM
lm_step(k) ==
    IF ~(k.Ek > LM_EPS) THEN [k EXCEPT !.pc = "return"]
    ELSE IF k.iterator + 1 > k.maxIter
         THEN [k EXCEPT !.pc = "return", !.iterator = @ + 1]
    ELSE
    LET dq == lm_dq(calc_jacobian(k.chain, k.current_joints), k.err, k.Ek)
        q == fl(k.current_joints + dq)
        err == calc_pose_error(k.target, forward_kinematics(k.chain, q))
        Ek2 == Ek_of(err)
    IN  IF Ek2 < k.Ek
        THEN [k EXCEPT !.iterator = @ + 1, !.dq = dq, !.current_joints = q,
                       !.err = err, !.Ek = Ek2, !.iterates = Append(@, q)]
        ELSE [k EXCEPT !.iterator = @ + 1, !.dq = dq, !.current_joints = fl(q - dq),
                       !.err = err, !.iterates = Append(@, q),
                       !.rejected = TRUE, !.pc = "return"]

\* lines 161-163 and 228-230
ik_return(k) == [k EXCEPT !.pc = "done"]

InverseKinematics ==
    /\ ik.pc = "idle"
    /\ \E in \in IkInputs : ik' = ik_begin(in)
    /\ UNCHANGED <<scene, last, logical_states, planner, calc, pick>>

NrStep ==
    /\ ik.pc = "loop" /\ ik.method = "NR"
    /\ ik' = nr_step(ik)
    /\ UNCHANGED <<scene, last, logical_states, planner, calc, pick>>

LmStep ==
    /\ ik.pc = "loop" /\ ik.method = "LM"
    /\ ik' = lm_step(ik)
    /\ UNCHANGED <<scene, last, logical_states, planner, calc, pick>>

IkReturn ==
    /\ ik.pc = "return"
    /\ ik' = ik_return(ik)
    /\ UNCHANGED <<scene, last, logical_states, planner, calc, pick>>

----------------------------------------------------------------------------
(* kin_utils.rot_to_omega and calc_pose_error on the 24 rotations that map   *)
(* the coordinate axes onto each other.  A 3x3 matrix is the tuple of its    *)
(* rows.  An angular vector is (k pi / 12) / sqrt(n2) times the integer      *)
(* vector v.                                                                 *)

Parity(p) == IF p \in { <<1, 2, 3>>, <<2, 3, 1>>, <<3, 1, 2>> } THEN 1 ELSE -1

Signs == [1..3 -> {-1, 1}]

\* the matrix with sgn[i] in column p[i] of row i
SignedPermutation(p, sgn) == [i \in 1..3 |-> [j \in 1..3 |-> IF j = p[i] THEN sgn[i] ELSE 0]]

\* the signed permutations of determinant 1
Rotations ==
    { SignedPermutation(x[1], x[2]) :
        x \in { y \in Pose \X Signs : Parity(y[1]) * y[2][1] * y[2][2] * y[2][3] = 1 } }

\* the EPS arguments: the norm of el is 0, sqrt(3) or 2 on these rotations
EpsValues == {0, 1, 2}

Transpose(R) == [i \in 1..3 |-> [j \in 1..3 |-> R[j][i]]]

MatMul(A, B) ==
    [i \in 1..3 |-> [j \in 1..3 |-> A[i][1] * B[1][j] + A[i][2] * B[2][j] + A[i][3] * B[3][j]]]

MatVec(A, v) == [i \in 1..3 |-> A[i][1] * v[1] + A[i][2] * v[2] + A[i][3] * v[3]]

trace(R) == R[1][1] + R[2][2] + R[3][3]

\* np.arctan2(sqrt(n2), x) in units of pi / 12, for the norms that occur
arctan2(n2, x) ==
    IF n2 = 4 /\ x = 0 THEN 6
    ELSE IF n2 = 3 /\ x = -1 THEN 8
    ELSE IF n2 = 0 /\ x >= 0 THEN 0
    ELSE 12

ZeroOmega == [k |-> 0, n2 |-> 1, v |-> <<0, 0, 0>>]

\* rot_to_omega with the identity not told apart from a half turn
rot_to_omega_without_zero_branch(R, EPS) ==
    LET el == << R[3][2] - R[2][3], R[1][3] - R[3][1], R[2][1] - R[1][2] >>
        n2 == el[1] * el[1] + el[2] * el[2] + el[3] * el[3]
    IN  IF n2 > EPS * EPS
        THEN [branch |-> "general", w |-> [k |-> arctan2(n2, trace(R) - 1), n2 |-> n2, v |-> el]]
        ELSE [branch |-> "singular",
              w |-> [k |-> 6, n2 |-> 1, v |-> << R[1][1] + 1, R[2][2] + 1, R[3][3] + 1 >>]]

\* kin_utils.rot_to_omega; norm_el > EPS is compared on the squares
rot_to_omega(R, EPS) ==
    LET el == << R[3][2] - R[2][3], R[1][3] - R[3][1], R[2][1] - R[1][2] >>
        n2 == el[1] * el[1] + el[2] * el[2] + el[3] * el[3]
    IN  IF n2 > EPS * EPS
        THEN [branch |-> "general", w |-> [k |-> arctan2(n2, trace(R) - 1), n2 |-> n2, v |-> el]]
        ELSE IF R[1][1] > 0 /\ R[2][2] > 0 /\ R[3][3] > 0
        THEN [branch |-> "zero", w |-> ZeroOmega]
        ELSE [branch |-> "singular",
              w |-> [k |-> 6, n2 |-> 1, v |-> << R[1][1] + 1, R[2][2] + 1, R[3][3] + 1 >>]]

\* the rows 3..5 of kin_utils.calc_pose_error: w_err
calc_w_err(tar_R, cur_R, EPS) ==
    LET rot_err == MatMul(Transpose(cur_R), tar_R)
        r == rot_to_omega(rot_err, EPS)
    IN  [rot_err |-> rot_err, branch |-> r.branch, omega |-> r.w,
         w_err |-> [r.w EXCEPT !.v = MatVec(cur_R, @)]]

NoCalc == [fn |-> "none"]

RotToOmega ==
    /\ calc = NoCalc
    /\ \E tar_R \in Rotations, cur_R \in Rotations, EPS \in EpsValues :
          calc' = [fn |-> "calc_pose_error", tar_R |-> tar_R, cur_R |-> cur_R, EPS |-> EPS,
                   out |-> calc_w_err(tar_R, cur_R, EPS)]
    /\ UNCHANGED <<scene, last, logical_states, planner, ik, pick>>

----------------------------------------------------------------------------
(* force-closure test: PickAction._is_force_closure (pick.py) and            *)
(* GraspManager._is_force_closure (grasp.py).  Contact points are integer    *)
(* vectors, normals are signed unit axes; an angle is carried as its cosine  *)
(* d / sqrt(n2), with the IEEE not-a-number flag of a division by zero.      *)

Dot3(u, v) == u[1] * v[1] + u[2] * v[2] + u[3] * v[3]

Sub3(u, v) == <<u[1] - v[1], u[2] - v[2], u[3] - v[3]>>

Neg3(u) == <<-u[1], -u[2], -u[3]>>

\* vec / np.linalg.norm(vec); numpy errors are ignored, so the zero vector
\* gives not-a-number components instead of an exception
normalize(vec) == [nan |-> Dot3(vec, vec) = 0, v |-> vec, n2 |-> Dot3(vec, vec)]

\* normal.dot(sgn * unit): not-a-number propagates
dot_unit(normal, unit, sgn) ==
    [nan |-> unit.nan, d |-> sgn * Dot3(normal, unit.v), n2 |-> unit.n2]

\* np.arccos: the angle in [0, pi] whose cosine is c.d / sqrt(c.n2)
arccos(c) == [nan |-> c.nan, cos_d |-> c.d, cos_n2 |-> c.n2]

SignedSq(d) == IF d >= 0 THEN d * d ELSE -(d * d)

\* a limit angle k * pi/12 with cosine s * sqrt(a / b)
LimitAngles ==
    { [k |-> 0, s |-> 1, a |-> 1, b |-> 1],
      [k |-> 3, s |-> 1, a |-> 1, b |-> 2],
      [k |-> 6, s |-> 0, a |-> 0, b |-> 1] }

\* angle > limit_angle: false when the angle is not a number
angle_gt(angle, limit) ==
    /\ ~angle.nan
    /\ SignedSq(angle.cos_d) * limit.b < limit.s * limit.a * angle.cos_n2

\* angle <= limit_angle: false when the angle is not a number
angle_le(angle, limit) ==
    /\ ~angle.nan
    /\ SignedSq(angle.cos_d) * limit.b >= limit.s * limit.a * angle.cos_n2

ContactPoints == { <<0, 0, 0>>, <<1, 0, 0>>, <<2, 0, 0>>, <<3, 0, 0>>, <<1, 1, 0>> }

ContactNormals == { <<1, 0, 0>>, <<-1, 0, 0>>, <<0, 1, 0>>, <<0, -1, 0>> }

MaxWidths == {1, 2}

ForceClosureOwners == {"PickAction", "GraspManager"}

is_force_closure(vertices, normals, limit_angle, max_width) ==
    LET vectorA == vertices[1]
        vectorB == vertices[2]
        normalA == Neg3(normals[1])
        normalB == Neg3(normals[2])
        vectorAB == Sub3(vectorB, vectorA)
        distance2 == Dot3(vectorAB, vectorAB)
        unit_vectorAB == normalize(vectorAB)
        angle_A2AB == arccos(dot_unit(normalA, unit_vectorAB, 1))
        angle_B2AB == arccos(dot_unit(normalB, unit_vectorAB, -1))
        res == IF distance2 > max_width * max_width THEN FALSE
               ELSE IF angle_gt(angle_A2AB, limit_angle) \/ angle_gt(angle_B2AB, limit_angle)
                    THEN FALSE
               ELSE TRUE
    IN  [distance2 |-> distance2, angle_A2AB |-> angle_A2AB, angle_B2AB |-> angle_B2AB,
         res |-> res]

IsForceClosure ==
    /\ calc = NoCalc
    /\ \E owner \in ForceClosureOwners, A \in ContactPoints, B \in ContactPoints,
          nA \in ContactNormals, nB \in ContactNormals,
          limit_angle \in LimitAngles, max_width \in MaxWidths :
          calc' = [fn |-> "_is_force_closure", owner |-> owner,
                   limit_angle |-> limit_angle, max_width |-> max_width,
                   out |-> is_force_closure(<<A, B>>, <<nA, nB>>, limit_angle, max_width)]
    /\ UNCHANGED <<scene, last, logical_states, planner, ik, pick>>

----------------------------------------------------------------------------
(* grasp poses of PickAction (pick.py): a pose is a rotation R and an        *)
(* integer position p                                                        *)

Col3(R) == <<R[1][3], R[2][3], R[3][3]>>

Add3(u, v) == <<u[1] + v[1], u[2] + v[2], u[3] + v[3]>>

Scale3(c, u) == <<c * u[1], c * u[2], c * u[3]>>

RetreatDistances == {1, 2}

TcpDepth == 1

TcpPositions == { <<0, 0, 0>>, <<1, 2, 3>> }

TcpPoses == [R : Rotations, p : TcpPositions]

\* the end-effector frame lies TcpDepth behind the tool centre point along
\* the tool axis
compute_eef_pose_from_tcp_pose(tcp_pose) ==
    [R |-> tcp_pose.R, p |-> Sub3(tcp_pose.p, Scale3(TcpDepth, Col3(tcp_pose.R)))]

get_pre_grasp_pose_along_world_z(retreat_distance, grasp_pose) ==
    [R |-> grasp_pose.R, p |-> Sub3(grasp_pose.p, <<0, 0, retreat_distance>>)]

get_pre_grasp_pose(retreat_distance, grasp_pose) ==
    [R |-> grasp_pose.R,
     p |-> Sub3(grasp_pose.p, Scale3(retreat_distance, Col3(grasp_pose.R)))]

get_post_grasp_pose(retreat_distance, grasp_pose) ==
    [R |-> grasp_pose.R, p |-> Add3(grasp_pose.p, <<0, 0, retreat_distance>>)]

get_all_grasp_poses(retreat_distance, tcp_poses) ==
    [i \in 1..Len(tcp_poses) |->
        LET grasp == compute_eef_pose_from_tcp_pose(tcp_poses[i])
        IN  [grasp |-> grasp,
             pre_grasp |-> get_pre_grasp_pose(retreat_distance, grasp),
             post_grasp |-> get_post_grasp_pose(retreat_distance, grasp)]]

GetAllGraspPoses ==
    /\ calc = NoCalc
    /\ \E retreat_distance \in RetreatDistances, t1 \in TcpPoses, t2 \in TcpPoses :
          calc' = [fn |-> "get_all_grasp_poses", retreat_distance |-> retreat_distance,
                   out |-> get_all_grasp_poses(retreat_distance, <<t1, t2>>)]
    /\ UNCHANGED <<scene, last, logical_states, planner, ik, pick>>

----------------------------------------------------------------------------
(* PickAction (pick.py) on the scene manager.  pick records the last call   *)
(* of the pick action; a Scene handed between the levels is the record      *)
(* [objs, robot, gripper_x, logical_states], gripper_x holding the fields   *)
(* the pick action writes on the gripper.                                   *)

PickIdle == [op |-> "none"]

pick_obj_name == "A"

support_obj_name == "B"

NoGripperX == [grasp_pose |-> Unset, pick_obj_pose |-> Unset, transform_bet_gripper_n_obj |-> Unset]

\* the pose sets of an action: a pose for each of the three moves
GraspPoseSets == [grasp : InputPoses, pre_grasp : {rotZ}, post_grasp : {eye, handOffset}]

GraspPoseLists == { <<g>> : g \in GraspPoseSets } \cup { <<g, h>> : g, h \in GraspPoseSets }

\* robot.forward_kin(init_qpos)["right_gripper"].h_mat
default_gripper_pose == forward_kin(gripper_name, init_qpos)

\* a scene with a robot that has a gripper, the object to pick lying on its
\* support, and the logical states of the three
PickSetUp ==
    /\ pick = PickIdle
    /\ scene = SceneManager
    /\ \E thetas \in Thetas, h_mat \in Pose, support_h_mat \in {NoneArg, handOffset} :
          LET s1 == add_robot(scene, TRUE, thetas).s
              s2 == add_object(s1, support_obj_name, support_h_mat).s
              s3 == add_object(s2, pick_obj_name, h_mat).s
              ls1 == set_logical_state(EmptyStates, support_obj_name, "static", TRUE)
              ls2 == set_logical_state(ls1, pick_obj_name, "on", support_obj_name)
              ls3 == [keys |-> Append(ls2.keys, gripper_name),
                      st |-> Put(ls2.st, gripper_name, EmptyDict)]
          IN  /\ scene' = s3
              /\ logical_states' = update_logical_states(s3.objs, ls3).s
              /\ pick' = [op |-> "set_up", init_objects |-> DOMAIN s3.objs]
    /\ last' = Last("set_up", "ok", "-", FALSE, NoPose)
    /\ UNCHANGED <<planner, ik, calc>>

\* line 135 with the factors exchanged
picked_object_pose_swapped(gripper_pose, transform_bet_gripper_n_obj) ==
    dot(transform_bet_gripper_n_obj, gripper_pose)

\* line 135: np.dot(gripper.get_gripper_pose(), transform_bet_gripper_n_obj)
picked_object_pose(gripper_pose, transform_bet_gripper_n_obj) ==
    dot(gripper_pose, transform_bet_gripper_n_obj)

\* lines 138-149: the logical states of the successor scene
pick_logical_states(objs, ls, pick_obj) ==
    IF ~Has(ls.st, pick_obj) THEN Raise(ls, "KeyError")
    ELSE IF ~Has(ls.st[pick_obj], "on") THEN Raise(ls, "AttributeError")
    ELSE
    LET supporting_obj == ls.st[pick_obj]["on"] IN
    IF ~Has(ls.st, supporting_obj) THEN Raise(ls, "AttributeError")
    ELSE IF ~Has(ls.st[supporting_obj], "support") THEN Raise(ls, "AttributeError")
    ELSE IF ~InSeq(pick_obj, ls.st[supporting_obj]["support"]) THEN Raise(ls, "ValueError")
    ELSE
    LET ls1 == remove_support(ls, supporting_obj, pick_obj)
        ls2 == clear_logical_state(ls1, pick_obj) IN
    IF ~Has(ls2.st, gripper_name) THEN Raise(ls2, "KeyError")
    ELSE update_logical_states(objs, set_logical_state(ls2, gripper_name, "holding", pick_obj))

\* lines 110-150: the successor scene of one grasp-pose set
get_possible_transition(s, ls, pick_obj, grasp_poses) ==
    LET none == [objs |-> s.objs, robot |-> s.robot, gripper_x |-> NoGripperX,
                 logical_states |-> ls] IN
    IF ~s.robot.present \/ ~s.robot.has_gripper THEN Raise(none, "AttributeError")
    ELSE
    LET g1 == gripper_set_gripper_pose(s.robot.gripper, grasp_poses.grasp)
        gripper_pose == gripper_get_gripper_pose(g1) IN
    IF ~Has(s.objs, pick_obj) THEN Raise(none, "KeyError")
    ELSE
    LET transform_bet_gripper_n_obj == get_relative_transform(gripper_pose, s.objs[pick_obj])
        g2 == [g1 EXCEPT !.attached_obj_name = pick_obj]
        gx == [grasp_pose |-> grasp_poses.grasp,
               pick_obj_pose |-> s.objs[pick_obj],
               transform_bet_gripper_n_obj |-> transform_bet_gripper_n_obj]
        g3 == gripper_set_gripper_pose(g2, default_gripper_pose)
        objs == Put(s.objs, pick_obj,
                    picked_object_pose(gripper_get_gripper_pose(g3), transform_bet_gripper_n_obj))
        r == pick_logical_states(objs, ls, pick_obj)
    IN  [s |-> [objs |-> objs, robot |-> [s.robot EXCEPT !.gripper = g3], gripper_x |-> gx,
                logical_states |-> r.s],
         res |-> r.res]

\* get_possible_transitions: the scenes the generator yields, and how it ends
RECURSIVE get_possible_transitions(_, _, _, _)
get_possible_transitions(s, ls, pick_obj, grasp_pose_list) ==
    IF grasp_pose_list = << >> THEN [yielded |-> << >>, res |-> "ok"]
    ELSE LET r == get_possible_transition(s, ls, pick_obj, Head(grasp_pose_list)) IN
         IF r.res # "ok" THEN [yielded |-> << >>, res |-> r.res]
         ELSE LET rest == get_possible_transitions(s, ls, pick_obj, Tail(grasp_pose_list))
              IN  [yielded |-> <<r.s>> \o rest.yielded, res |-> rest.res]

GetPossibleTransitions ==
    /\ pick.op = "set_up"
    /\ \E grasp_pose_list \in GraspPoseLists :
          pick' = [op |-> "get_possible_transitions",
                   init_objects |-> pick.init_objects,
                   pick_obj |-> pick_obj_name,
                   grasp_pose_list |-> grasp_pose_list,
                   out |-> get_possible_transitions(scene, logical_states, pick_obj_name,
                                                    grasp_pose_list)]
    /\ last' = Last("get_possible_transitions", "ok", "-", FALSE, NoPose)
    /\ UNCHANGED <<scene, logical_states, planner, ik, calc>>

\* get_action: the dict a pick action is handed around as
get_action(obj_name, all_poses) ==
    [TYPE |-> "pick", PICK_OBJ_NAME |-> obj_name, GRASP_POSES |-> all_poses]

\* get_possible_transitions(scene, action) from its first line: the test of
\* the empty action builds a ValueError and drops it, the lookups follow
get_possible_transitions_of_action(s, ls, action) ==
    LET not_action == DOMAIN action = {}
        error_built == IF not_action THEN "ValueError" ELSE "none"
    IN  IF ~Has(action, "PICK_OBJ_NAME")
        THEN [yielded |-> << >>, res |-> "KeyError", built |-> error_built]
        ELSE IF ~Has(action, "GRASP_POSES")
        THEN [yielded |-> << >>, res |-> "KeyError", built |-> error_built]
        ELSE LET r == get_possible_transitions(s, ls, action["PICK_OBJ_NAME"],
                                               action["GRASP_POSES"])
             IN  [yielded |-> r.yielded, res |-> r.res, built |-> error_built]

GetPossibleTransitionsOfAction ==
    /\ pick.op = "set_up"
    /\ \E empty \in BOOLEAN, grasp_pose_list \in GraspPoseLists :
          LET action == IF empty THEN EmptyDict
                        ELSE get_action(pick_obj_name, grasp_pose_list)
          IN  pick' = [op |-> "get_possible_transitions_of_action",
                       init_objects |-> pick.init_objects,
                       action_empty |-> empty,
                       out |-> get_possible_transitions_of_action(scene, logical_states,
                                                                  action)]
    /\ last' = Last("get_possible_transitions", "ok", "-", FALSE, NoPose)
    /\ UNCHANGED <<scene, logical_states, planner, ik, calc>>

\* what a path planner hands back: a path to a configuration q, or no path
PlannerOutcomes == [found : BOOLEAN, q : Thetas]

\* get_rrt_star_path / get_cartesian_path: a joint path from start, or []
joint_path(start, outcome) == IF outcome.found THEN <<start, outcome.q>> ELSE << >>

NoJointPath ==
    [none |-> TRUE, pre_grasp |-> << >>, grasp |-> << >>, post_grasp |-> << >>,
     default_grasp |-> << >>]

\* copy_scene: the scene manager works on the scene it is handed
copy_scene(s, next_scene) == [s EXCEPT !.objs = next_scene.objs, !.robot = next_scene.robot]

\* lines 80-86: detach, then add the object back under the name the gripper
\* carries and at the pose it was picked from
level_3_roll_back(s, init_objects, pick_obj_pose) ==
    LET rd == detach_object_from_gripper(s, FALSE, TRUE) IN
    IF rd.res # "ok" THEN rd
    ELSE
    LET name == rd.s.robot.gripper.attached_obj_name IN
    \* init_objects[name] is read before add_object is called
    IF name \notin init_objects THEN Raise(rd.s, "KeyError")
    ELSE add_object(rd.s, name, pick_obj_pose)

\* PickAction.get_possible_joint_path_level_3
get_possible_joint_path_level_3(s, next_scene, init_objects, grasp_poses, outcomes) ==
    LET s0 == copy_scene(s, next_scene)
        default_thetas == init_qpos
        pre_grasp_joint_path == joint_path(default_thetas, outcomes.pre_grasp)
        call1 == [planner |-> "rrt_star", start |-> default_thetas, goal |-> grasp_poses.pre_grasp]
        none == [s |-> s0, res |-> "ok", ret |-> NoJointPath, attached |-> FALSE,
                 calls |-> <<call1>>,
                 segments |-> [NoJointPath EXCEPT !.pre_grasp = pre_grasp_joint_path]]
    IN
    IF pre_grasp_joint_path = << >> THEN none
    ELSE
    LET start2 == pre_grasp_joint_path[Len(pre_grasp_joint_path)]
        grasp_joint_path == joint_path(start2, outcomes.grasp)
        call2 == [planner |-> "cartesian", start |-> start2, goal |-> grasp_poses.grasp]
        seg2 == [none.segments EXCEPT !.grasp = grasp_joint_path]
    IN
    IF grasp_joint_path = << >>
    THEN [none EXCEPT !.calls = <<call1, call2>>, !.segments = seg2]
    ELSE
    LET ra == attach_object_on_gripper(s0, s0.robot.gripper.attached_obj_name, FALSE) IN
    IF ra.res # "ok"
    THEN [none EXCEPT !.s = ra.s, !.res = ra.res, !.calls = <<call1, call2>>, !.segments = seg2]
    ELSE
    LET start3 == grasp_joint_path[Len(grasp_joint_path)]
        post_grasp_joint_path == joint_path(start3, outcomes.post_grasp)
        call3 == [planner |-> "cartesian", start |-> start3, goal |-> grasp_poses.post_grasp]
        start4 == post_grasp_joint_path[Len(post_grasp_joint_path)]
        default_joint_path == IF post_grasp_joint_path # << >>
                              THEN joint_path(start4, outcomes.default_grasp)
                              ELSE << >>
        calls == IF post_grasp_joint_path # << >>
                 THEN <<call1, call2, call3,
                        [planner |-> "rrt_star", start |-> start4, goal |-> default_gripper_pose]>>
                 ELSE <<call1, call2, call3>>
        segments == [none |-> FALSE, pre_grasp |-> pre_grasp_joint_path,
                     grasp |-> grasp_joint_path, post_grasp |-> post_grasp_joint_path,
                     default_grasp |-> default_joint_path]
        rb == level_3_roll_back(ra.s, init_objects, next_scene.gripper_x.pick_obj_pose)
    IN  [s |-> rb.s, res |-> rb.res,
         ret |-> IF rb.res = "ok" /\ default_joint_path # << >> THEN segments ELSE NoJointPath,
         attached |-> TRUE, calls |-> calls,
         segments |-> [segments EXCEPT !.none = TRUE]]

GetPossibleJointPathLevel3 ==
    /\ pick.op = "get_possible_transitions"
    /\ \E i \in 1..Len(pick.out.yielded),
          outcomes \in [pre_grasp : PlannerOutcomes, grasp : PlannerOutcomes,
                        post_grasp : PlannerOutcomes, default_grasp : PlannerOutcomes] :
          LET next_scene == pick.out.yielded[i]
              r == get_possible_joint_path_level_3(scene, next_scene, pick.init_objects,
                                                   pick.grasp_pose_list[i], outcomes)
          IN  /\ scene' = r.s
              /\ logical_states' = next_scene.logical_states
              /\ pick' = [op |-> "level_3", init_objects |-> pick.init_objects,
                          pick_obj |-> pick.pick_obj,
                          pick_obj_pose |-> next_scene.gripper_x.pick_obj_pose,
                          out |-> [res |-> r.res, ret |-> r.ret, attached |-> r.attached,
                                   calls |-> r.calls, segments |-> r.segments]]
              /\ last' = Last("get_possible_joint_path_level_3", r.res, "-", FALSE, NoPose)
    /\ UNCHANGED <<planner, ik, calc>>

\* robot.eef_name: the frame whose pose get_robot_eef_pose reads
eef_name == "hand"

\* SceneManager.get_robot_eef_pose
get_robot_eef_pose(s) == s.robot.info[geom][eef_name]

\* _solve_ik: the pose reached by the solution matches the target within the
\* tolerance
solve_ik(pose, pose_from_ik) == pose = pose_from_ik

\* _collide(is_only_gripper=False): a link of the robot and an object of the
\* scene occupy the same place
collide(s) ==
    \E l \in DOMAIN s.robot_collision_mngr.objs, o \in DOMAIN s.obj_collision_mngr.objs :
        s.robot_collision_mngr.objs[l] = s.obj_collision_mngr.objs[o]

\* the test of a phase with the collision check left out
phase_passes_without_collision_check(s, pose) ==
    solve_ik(pose, get_robot_eef_pose(s))

\* lines 215, 221, 227: the test a phase has to pass, in the scene the robot
\* was moved in
phase_passes(s, pose) ==
    solve_ik(pose, get_robot_eef_pose(s)) /\ ~collide(s)

MoveNames == <<"grasp", "pre_grasp", "post_grasp">>

NoIkSolve == [none |-> TRUE, ik_solve |-> EmptyDict, grasp_pose_for_ik |-> EmptyDict]

\* the loop of compute_ik_solve_for_robot from its i-th item on; thetas holds
\* what compute_ik gives for each pose
RECURSIVE ik_solve_from(_, _, _, _, _)
ik_solve_from(s, grasp_pose, thetas, i, acc) ==
    IF i > Len(MoveNames) THEN [s |-> s, res |-> "ok", acc |-> acc]
    ELSE
    LET name == MoveNames[i]
        r == set_robot_eef_pose(s, thetas[name]) IN
    IF r.res # "ok" THEN [s |-> r.s, res |-> r.res, acc |-> acc]
    ELSE ik_solve_from(r.s, grasp_pose, thetas, i + 1,
                       IF phase_passes(r.s, grasp_pose[name])
                       THEN [acc EXCEPT !.ik_solve = Put(@, name, thetas[name]),
                                        !.grasp_pose_for_ik = Put(@, name, grasp_pose[name])]
                       ELSE acc)

\* PickAction.compute_ik_solve_for_robot
compute_ik_solve_for_robot(s, grasp_pose, thetas) ==
    LET r == ik_solve_from(s, grasp_pose, thetas, 1, NoIkSolve)
    IN  [s |-> r.s, res |-> r.res,
         ret |-> IF r.res = "ok" /\ Cardinality(DOMAIN r.acc.ik_solve) = 3
                 THEN [r.acc EXCEPT !.none = FALSE]
                 ELSE NoIkSolve]

IkGraspPoseSets == [grasp : Pose, pre_grasp : Pose, post_grasp : Pose]

\* get_possible_ik_solve_level_2 on the scene the manager holds
ComputeIkSolveForRobot ==
    /\ pick.op = "set_up"
    /\ \E grasp_pose \in IkGraspPoseSets,
          thetas \in [grasp : Thetas, pre_grasp : Thetas, post_grasp : Thetas] :
          LET r == compute_ik_solve_for_robot(scene, grasp_pose, thetas)
          IN  /\ scene' = r.s
              /\ pick' = [op |-> "compute_ik_solve_for_robot",
                          init_objects |-> pick.init_objects,
                          grasp_pose |-> grasp_pose, thetas |-> thetas,
                          out |-> [res |-> r.res, ret |-> r.ret]]
              /\ last' = Last("compute_ik_solve_for_robot", r.res, "-", FALSE, NoPose)
    /\ UNCHANGED <<logical_states, planner, ik, calc>>

table_obj_name == "T"

\* a scene with a stack: the object to pick lies on a support that itself
\* lies on a static table
StackedSetUp ==
    /\ pick = PickIdle
    /\ scene = SceneManager
    /\ \E thetas \in Thetas, h_mat \in InputPoses :
          LET s1 == add_robot(scene, TRUE, thetas).s
              s2 == add_object(s1, table_obj_name, NoneArg).s
              s3 == add_object(s2, support_obj_name, handOffset).s
              s4 == add_object(s3, pick_obj_name, h_mat).s
              ls1 == set_logical_state(EmptyStates, table_obj_name, "static", TRUE)
              ls2 == set_logical_state(ls1, support_obj_name, "on", table_obj_name)
              ls3 == set_logical_state(ls2, pick_obj_name, "on", support_obj_name)
              ls4 == [keys |-> Append(ls3.keys, gripper_name),
                      st |-> Put(ls3.st, gripper_name, EmptyDict)]
          IN  /\ scene' = s4
              /\ logical_states' = update_logical_states(s4.objs, ls4).s
              /\ pick' = [op |-> "set_up", init_objects |-> DOMAIN s4.objs]
    /\ last' = Last("set_up", "ok", "-", FALSE, NoPose)
    /\ UNCHANGED <<planner, ik, calc>>

\* self.filter_logical_states
filter_logical_states == {"support", "static"}

\* line 36: not any(logical_state in logical_states[obj_name] ...), a test of
\* the keys of the object's dict
passes_filter(ls, obj_name) ==
    ~\E logical_state \in filter_logical_states : Has(ls.st[obj_name], logical_state)

\* PickAction.get_possible_actions_level_1: how many actions are yielded for
\* each object of the scene
get_possible_actions_level_1(objs, ls, scene_pick_obj_name) ==
    IF \E n \in DOMAIN objs : n # scene_pick_obj_name /\ ~Has(ls.st, n)
    THEN [yielded |-> [n \in DOMAIN objs |-> 0], res |-> "KeyError"]
    ELSE [yielded |-> [n \in DOMAIN objs |->
                          IF n = scene_pick_obj_name THEN 0
                          ELSE IF passes_filter(ls, n) THEN 1 ELSE 0],
          res |-> "ok"]

GetPossibleActionsLevel1 ==
    /\ pick.op = "get_possible_transitions"
    /\ \E i \in 1..Len(pick.out.yielded), scene_pick_obj_name \in {"None", pick.pick_obj} :
          LET next_scene == pick.out.yielded[i]
          IN  pick' = [op |-> "get_possible_actions_level_1",
                       init_objects |-> pick.init_objects,
                       objs |-> next_scene.objs,
                       logical_states |-> next_scene.logical_states,
                       scene_pick_obj_name |-> scene_pick_obj_name,
                       out |-> get_possible_actions_level_1(next_scene.objs,
                                                            next_scene.logical_states,
                                                            scene_pick_obj_name)]
    /\ last' = Last("get_possible_actions_level_1", "ok", "-", FALSE, NoPose)
    /\ UNCHANGED <<scene, logical_states, planner, ik, calc>>

----------------------------------------------------------------------------
(* Kinematics._compute_FK on a flattened list of frames (kinematics.py):    *)
(* a frame is the dtype of its joint, the index cnt is counted from 0       *)

MaxFrames == 3

MaxAngles == 2

JointTypes == {"fixed", "revolute", "prismatic"}

FrameLists == UNION { [1..n -> JointTypes] : n \in 1..MaxFrames }

\* the angle sequences: thetas[k] is told apart by its value
AngleLists == { [k \in 1..n |-> 10 * k] : n \in 1..MaxAngles }

\* lines 106-109 without the step back at the end of the angles
next_cnt_without_step_back(dtype, cnt, len_thetas) ==
    IF dtype # "fixed" THEN cnt + 1 ELSE cnt

\* lines 106-109: cnt after a frame
next_cnt(dtype, cnt, len_thetas) ==
    LET c == IF dtype # "fixed" THEN cnt + 1 ELSE cnt
    IN  IF c >= len_thetas THEN c - 1 ELSE c

\* lines 101-109: the loop from its i-th frame on; used lists the index each
\* frame read, angles the angle it got
RECURSIVE compute_FK_from(_, _, _, _, _)
compute_FK_from(frames, thetas, i, cnt, acc) ==
    IF i > Len(frames) THEN [acc EXCEPT !.cnt = cnt]
    ELSE IF cnt + 1 \notin DOMAIN thetas THEN [acc EXCEPT !.res = "IndexError", !.cnt = cnt]
    ELSE compute_FK_from(frames, thetas, i + 1, next_cnt(frames[i], cnt, Len(thetas)),
                         [acc EXCEPT !.used = Append(@, cnt),
                                     !.angles = Append(@, thetas[cnt + 1])])

\* Kinematics._compute_FK, the branch of a list of frames
compute_FK(frames, thetas) ==
    compute_FK_from(frames, thetas, 1, 0,
                    [res |-> "ok", used |-> << >>, angles |-> << >>, cnt |-> 0])

ComputeFK ==
    /\ calc = NoCalc
    /\ \E frames \in FrameLists, thetas \in AngleLists :
          calc' = [fn |-> "_compute_FK", frames |-> frames, thetas |-> thetas,
                   out |-> compute_FK(frames, thetas)]
    /\ UNCHANGED <<scene, last, logical_states, planner, ik, pick>>

----------------------------------------------------------------------------
(* contact sampling: PickAction.get_contact_points (pick.py) and            *)
(* GraspManager._generate_contact_points (grasp.py), one draw of two        *)
(* surface samples per step                                                 *)

MaxContacts == 2

\* the draws are counted up to MaxDraws and no further
MaxDraws == 3

\* a mesh is the set of its surface samples, each a point with its outward normal
Meshes ==
    [ narrow |-> { [p |-> <<0, 0, 0>>, n |-> <<-1, 0, 0>>],
                   [p |-> <<1, 0, 0>>, n |-> <<1, 0, 0>>],
                   [p |-> <<1, 1, 0>>, n |-> <<0, 1, 0>>] },
      wide   |-> { [p |-> <<0, 0, 0>>, n |-> <<-1, 0, 0>>],
                   [p |-> <<3, 0, 0>>, n |-> <<1, 0, 0>>],
                   [p |-> <<1, 1, 0>>, n |-> <<0, 1, 0>>] } ]

\* get_surface_points_from_mesh(mesh, 2) / surface_sampling(mesh, n_samples=2)
surface_sampling(mesh) ==
    { <<a, b>> : a \in Meshes[mesh], b \in Meshes[mesh] } \ { <<a, a>> : a \in Meshes[mesh] }

sample_passes(c, sample) ==
    is_force_closure(<<sample[1].p, sample[2].p>>, <<sample[1].n, sample[2].n>>,
                     c.limit_angle, c.max_width).res

\* the entry of either generator: cnt = 0 and the first test of the loop
StartContactSampling ==
    /\ calc = NoCalc
    /\ \E owner \in ForceClosureOwners, mesh \in DOMAIN Meshes,
          limit_angle \in LimitAngles, max_width \in MaxWidths,
          n_contacts \in 0..MaxContacts :
          calc' = [fn |-> "contact_sampling", owner |-> owner, mesh |-> mesh,
                   limit_angle |-> limit_angle, max_width |-> max_width,
                   n_contacts |-> n_contacts, cnt |-> 0, draws |-> 0,
                   sample |-> << >>, yielded |-> 0,
                   pc |-> IF owner = "PickAction" /\ n_contacts = 0
                          THEN "done" ELSE "loop"]
    /\ UNCHANGED <<scene, last, logical_states, planner, ik, pick>>

\* one pass of the loop: pick.py 242-246 (cnt counts the pairs that passed,
\* the loop is left when cnt reaches n_contacts), grasp.py 153-156 (the loop
\* is left on the first pair that passes)
SampleContactPoints ==
    /\ calc.fn = "contact_sampling"
    /\ calc.pc = "loop"
    /\ \E sample \in surface_sampling(calc.mesh) :
          LET passed == sample_passes(calc, sample)
              cnt == IF passed /\ calc.owner = "PickAction" THEN calc.cnt + 1 ELSE calc.cnt
              left == IF calc.owner = "PickAction" THEN cnt >= calc.n_contacts ELSE passed
          IN  calc' = [calc EXCEPT !.sample = sample,
                                   !.draws = IF @ < MaxDraws THEN @ + 1 ELSE @,
                                   !.cnt = cnt,
                                   !.yielded = IF passed THEN @ + 1 ELSE @,
                                   !.pc = IF left THEN "done" ELSE "loop"]
    /\ UNCHANGED <<scene, last, logical_states, planner, ik, pick>>

----------------------------------------------------------------------------
(* TCP poses around a pair of contact points: PickAction.get_tcp_poses      *)
(* (pick.py) with action_utils.get_grasp_directions, and                    *)
(* GraspManager.generate_tcp_poses (grasp.py) with _generate_grasp_directions. *)
(* An angle is the fraction num/den of pi/2; a grasp direction              *)
(* cos(theta) * v1 + sin(theta) * v2 is carried as its angle theta.         *)

MaxDirections == 4

\* np.linspace with the step (stop - start) / num, which stops short of stop
linspace_without_endpoint(start, stop, num) ==
    [i \in 1..num |-> [num |-> start * num + (i - 1) * (stop - start), den |-> num]]

\* np.linspace(start, stop, num): num evenly spaced angles, stop included;
\* a single sample is start
linspace(start, stop, num) ==
    LET den == IF num > 1 THEN num - 1 ELSE 1
    IN  [i \in 1..num |-> [num |-> start * den + (i - 1) * (stop - start), den |-> den]]

\* action_utils.get_grasp_directions: np.linspace(0, np.pi, n_trials)
get_grasp_directions(line, n_trials) == linspace(0, 2, n_trials)

\* GraspManager._generate_grasp_directions: np.linspace(-np.pi/2, np.pi/2, n_trials)
generate_grasp_directions(vector, n_trials) == linspace(-1, 1, n_trials)

\* the pose built in both loops: y along the contact line, z the grasp
\* direction, the origin the midpoint (p1 + p2) / 2, kept as its double
tcp_pose_of(p1, p2, grasp_dir) ==
    [y |-> normalize(Sub3(p2, p1)), z |-> grasp_dir, center2 |-> Add3(p1, p2)]

RECURSIVE get_tcp_poses(_, _)
\* PickAction.get_tcp_poses after the list of contact pairs is drawn
get_tcp_poses(contact_points, n_directions) ==
    IF contact_points = << >> THEN << >>
    ELSE LET p1 == Head(contact_points)[1]
             p2 == Head(contact_points)[2]
             dirs == get_grasp_directions(Sub3(p2, p1), n_directions)
         IN  [i \in 1..n_directions |-> tcp_pose_of(p1, p2, dirs[i])]
             \o get_tcp_poses(Tail(contact_points), n_directions)

\* GraspManager.generate_tcp_poses after its contact pair is drawn
generate_tcp_poses(contact_points, n_trials) ==
    LET p1 == contact_points[1]
        p2 == contact_points[2]
        dirs == generate_grasp_directions(Sub3(p2, p1), n_trials)
    IN  [i \in 1..n_trials |-> tcp_pose_of(p1, p2, dirs[i])]

TcpContactPairs ==
    { << <<0, 0, 0>>, <<1, 0, 0>> >>, << <<1, 0, 0>>, <<1, 1, 0>> >>,
      << <<2, 0, 0>>, <<0, 0, 0>> >> }

GetTcpPoses ==
    /\ calc = NoCalc
    /\ \E n_directions \in 0..MaxDirections, a \in TcpContactPairs, b \in TcpContactPairs,
          n_contacts \in 0..2 :
          LET contact_points == SubSeq(<<a, b>>, 1, n_contacts)
          IN  calc' = [fn |-> "get_tcp_poses", n |-> n_directions,
                       contact_points |-> contact_points,
                       out |-> IF contact_points = << >>
                               THEN [res |-> "ValueError", poses |-> << >>]
                               ELSE [res |-> "ok",
                                     poses |-> get_tcp_poses(contact_points, n_directions)]]
    /\ UNCHANGED <<scene, last, logical_states, planner, ik, pick>>

GenerateTcpPoses ==
    /\ calc = NoCalc
    /\ \E n_trials \in 0..MaxDirections, contact_points \in TcpContactPairs :
          calc' = [fn |-> "generate_tcp_poses", n |-> n_trials,
                   contact_points |-> <<contact_points>>,
                   out |-> [res |-> "ok",
                            poses |-> generate_tcp_poses(contact_points, n_trials)]]
    /\ UNCHANGED <<scene, last, logical_states, planner, ik, pick>>

----------------------------------------------------------------------------
(* GraspManager (grasp.py): generate_grasps, filter_grasps and              *)
(* get_grasp_waypoints. The k-th TCP pose drawn stands for itself as the    *)
(* number k; what the collision and IK checks say of it is read from env.   *)

MaxNumGrasp == 2

MaxTrials == 2

\* end-effector frames: the tool axis R[:,2] up, down and along x
GraspBasePoses ==
    { [R |-> << <<1, 0, 0>>, <<0, 1, 0>>, <<0, 0, 1>> >>, p |-> <<0, 0, 0>>],
      [R |-> << <<1, 0, 0>>, <<0, -1, 0>>, <<0, 0, -1>> >>, p |-> <<1, 2, 3>>],
      [R |-> << <<0, 0, 1>>, <<0, 1, 0>>, <<-1, 0, 0>> >>, p |-> <<1, 2, 3>>] }

\* the grasp pose of the k-th TCP pose drawn
grasp_pose_of(base, k) == [R |-> base.R, p |-> Add3(base.p, <<k, 0, 0>>)]

GraspEnvs ==
    [free : {"all", "even", "none"}, pass_from : 0..3,
     kind : {"qpos_none", "grasp_fails", "pre_grasp_fails"}, base : GraspBasePoses]

\* collision_free(gripper_transformed, only_gripper=True) for the k-th TCP pose
gripper_collision_free(env, k) ==
    CASE env.free = "all" -> TRUE
      [] env.free = "even" -> k % 2 = 0
      [] env.free = "none" -> FALSE

\* what lines 89-102 find for the j-th candidate handed to filter_grasps
filter_outcome(env, j) ==
    IF env.pass_from # 0 /\ j >= env.pass_from THEN "passes" ELSE env.kind

\* GraspManager.get_pre_grasp_pose
gm_get_pre_grasp_pose(grasp_pose, desired_distance) ==
    [R |-> grasp_pose.R,
     p |-> Sub3(grasp_pose.p, Scale3(desired_distance, Col3(grasp_pose.R)))]

\* generate_grasps from the test of its while loop on: every pass draws
\* n_trials TCP poses and yields those whose gripper is free of collision
RECURSIVE generate_grasps_from(_, _, _, _)
generate_grasps_from(cnt, num_grasp, n_trials, env) ==
    IF ~(cnt < num_grasp * n_trials) THEN [evaluated |-> 0, yielded |-> << >>]
    ELSE LET tcp_poses == [i \in 1..n_trials |-> cnt * n_trials + i]
             free == SelectSeq(tcp_poses, LAMBDA k : gripper_collision_free(env, k))
             rest == generate_grasps_from(cnt + 1, num_grasp, n_trials, env)
         IN  [evaluated |-> n_trials + rest.evaluated, yielded |-> free \o rest.yielded]

generate_grasps(num_grasp, n_trials, env) ==
    generate_grasps_from(0, num_grasp, n_trials, env)

\* filter_grasps from its j-th candidate on; NoPose stands for None and for
\* an attribute that was not assigned
RECURSIVE filter_grasps_from(_, _, _, _)
filter_grasps_from(grasp_poses, j, desired_distance, env) ==
    IF j > Len(grasp_poses)
    THEN [is_success_filtered |-> FALSE, checked |-> j - 1, grasp_pose |-> NoPose,
          pre_grasp_pose |-> NoPose, post_grasp_pose |-> NoPose]
    ELSE IF filter_outcome(env, j) = "passes"
    THEN LET grasp_pose == grasp_pose_of(env.base, grasp_poses[j])
             pre_grasp_pose == gm_get_pre_grasp_pose(grasp_pose, desired_distance)
         IN  [is_success_filtered |-> TRUE, checked |-> j, grasp_pose |-> grasp_pose,
              pre_grasp_pose |-> pre_grasp_pose, post_grasp_pose |-> pre_grasp_pose]
    ELSE filter_grasps_from(grasp_poses, j + 1, desired_distance, env)

filter_grasps(grasp_poses, desired_distance, env) ==
    filter_grasps_from(grasp_poses, 1, desired_distance, env)

\* get_grasp_waypoints through get_grasp_pose
get_grasp_waypoints(num_grasp, n_trials, desired_distance, env) ==
    LET generated == generate_grasps(num_grasp, n_trials, env)
        filtered == filter_grasps(generated.yielded, desired_distance, env)
    IN  [evaluated |-> generated.evaluated,
         grasp_poses |-> generated.yielded,
         checked |-> filtered.checked,
         is_success_filtered |-> filtered.is_success_filtered,
         waypoints |-> [pre_grasp |-> filtered.pre_grasp_pose,
                        grasp |-> filtered.grasp_pose,
                        post_grasp |-> filtered.post_grasp_pose]]

GetGraspWaypoints ==
    /\ calc = NoCalc
    /\ \E num_grasp \in 1..MaxNumGrasp, n_trials \in 1..MaxTrials,
          desired_distance \in RetreatDistances, env \in GraspEnvs :
          calc' = [fn |-> "get_grasp_waypoints", num_grasp |-> num_grasp,
                   n_trials |-> n_trials, desired_distance |-> desired_distance,
                   env |-> env,
                   out |-> get_grasp_waypoints(num_grasp, n_trials, desired_distance, env)]
    /\ UNCHANGED <<scene, last, logical_states, planner, ik, pick>>

----------------------------------------------------------------------------
(* specifications *)

vars == <<scene, last, logical_states, planner, ik, calc, pick>>

Init ==
    /\ scene = SceneManager
    /\ last = Last("__init__", "ok", "-", FALSE, NoPose)
    /\ logical_states = EmptyStates
    /\ planner = PlannerIdle
    /\ ik = IkIdle
    /\ calc = NoCalc
    /\ pick = PickIdle

SceneNext ==
    \/ AddObject
    \/ AddRobot
    \/ RemoveObject
    \/ GetObjectPose
    \/ SetObjectPose
    \/ AttachObjectOnGripper
    \/ DetachObjectFromGripper
    \/ SetRobotEefPose
    \/ SetGripperPose
    \/ SetGripperTcpPose
    \/ Reset

\* the scene's registry, robot, gripper and collision managers
Spec == Init /\ [][SceneNext]_vars

LogicalNext ==
    \/ LAddObject
    \/ LRemoveObject
    \/ SetOn
    \/ SetHolding
    \/ ClearLogicalState
    \/ RemoveSupport
    \/ UpdateLogicalStates

\* the logical-state graph over a registry of objects
SpecLogical == Init /\ [][LogicalNext]_vars

PlannerNext ==
    \/ GetPath
    \/ SweepBegin
    \/ SweepStep
    \/ SweepEnd
    \/ ReturnPath

\* one call of the Cartesian planner; the call runs on until it returns
SpecPlanner == Init /\ [][PlannerNext]_vars /\ WF_vars(PlannerNext)

IkNext ==
    \/ InverseKinematics
    \/ NrStep
    \/ LmStep
    \/ IkReturn

\* one call of inverse_kinematics
SpecIk == Init /\ [][IkNext]_vars

CalcNext ==
    \/ RotToOmega
    \/ IsForceClosure
    \/ GetAllGraspPoses
    \/ ComputeFK
    \/ GetTcpPoses
    \/ GenerateTcpPoses
    \/ GetGraspWaypoints

\* calls of the functions that compute on their arguments alone
SpecCalc == Init /\ [][CalcNext]_vars

SamplingNext ==
    \/ StartContactSampling
    \/ SampleContactPoints

\* one run of contact sampling; the loop goes on drawing while it can
SpecSampling == Init /\ [][SamplingNext]_vars /\ WF_vars(SamplingNext)

PickNext ==
    \/ PickSetUp
    \/ GetPossibleTransitions
    \/ GetPossibleJointPathLevel3
    \/ ComputeIkSolveForRobot

SpecPick == Init /\ [][PickNext]_vars

Level1Next ==
    \/ PickSetUp
    \/ StackedSetUp
    \/ GetPossibleTransitions
    \/ GetPossibleActionsLevel1
    \/ GetPossibleTransitionsOfAction

SpecLevel1 == Init /\ [][Level1Next]_vars

----------------------------------------------------------------------------
(* properties of the scene manager and of the planner *)

\* an object that a completed attach put on the gripper and no detach took off
Attached(s, x) ==
    /\ s.robot.present /\ s.robot.has_gripper /\ s.is_attached
    /\ s.attached_obj_name = x
    /\ x \in ObjNames
    /\ x \in DOMAIN s.robot.gripper.info

ObjectEntries(d) == [k \in (DOMAIN d) \ (ArmLinks \cup GripperLinks) |-> d[k]]

Managers(s) == <<s.obj_collision_mngr, s.robot_collision_mngr, s.gripper_collision_mngr>>

\* C1: an attached object X (attached with either value of only_gripper) is
\* set by every later set_robot_eef_pose to (gripper pose) x T_rel, with
\* T_rel = inverse(gripper pose at attach) x (X's pose at attach); once
\* detached, set_robot_eef_pose no longer changes a recorded object pose.
C1_AttachedObjectFollowsGripper ==
    [][ /\ (last'.op = "attach_object_on_gripper" /\ last'.res = "ok")
            => scene'.transform_bet_gripper_n_obj =
                   dot(inv(get_gripper_pose(scene)), scene.objs[last'.name])
        /\ \A x \in ObjNames :
            (last'.op = "set_robot_eef_pose" /\ Attached(scene, x))
            => /\ last'.res = "ok"
               /\ scene'.robot.gripper.info[x] =
                      dot(get_gripper_pose(scene'), scene.transform_bet_gripper_n_obj)
               /\ x \in DOMAIN scene.robot.info.collision
                      => scene'.robot.info.collision[x] =
                             dot(get_gripper_pose(scene'), scene.transform_bet_gripper_n_obj)
        /\ (last'.op = "set_robot_eef_pose" /\ ~scene.is_attached)
            => /\ scene'.objs = scene.objs
               /\ ObjectEntries(scene'.robot.info.collision) = ObjectEntries(scene.robot.info.collision)
               /\ ObjectEntries(scene'.robot.gripper.info) = ObjectEntries(scene.robot.gripper.info)
      ]_vars

\* C2: when update_logical_states() has returned, every A with on = B is in
\* B's support list and every X that an entry records as holding has held = True.
C2_UpdateRestoresInvariant ==
    (last.op = "update_logical_states" /\ last.res = "ok")
    => LET st == logical_states.st
       IN  \A a \in DOMAIN st :
              /\ Has(st[a], "on")
                  => /\ Has(st, st[a]["on"])
                     /\ Has(st[st[a]["on"]], "support")
                     /\ InSeq(a, st[st[a]["on"]]["support"])
              /\ Has(st[a], "holding")
                  => /\ Has(st, st[a]["holding"])
                     /\ Has(st[st[a]["holding"]], "held")
                     /\ st[st[a]["holding"]]["held"] = TRUE

C2_Witness ==
    /\ last.op = "update_logical_states" /\ last.res = "ok"
    /\ Has(logical_states.st, "A") /\ Has(logical_states.st, "B")
    /\ Has(logical_states.st, gripper_name)
    /\ Has(logical_states.st["A"], "on") /\ logical_states.st["A"]["on"] = "B"
    /\ Has(logical_states.st["B"], "support") /\ logical_states.st["B"]["support"] = <<"A">>
    /\ Has(logical_states.st[gripper_name], "holding")
    /\ logical_states.st[gripper_name]["holding"] = "A"
    /\ Has(logical_states.st["A"], "held")

\* the call of this step is one that the registry rejects
Rejected ==
    \/ last'.op = "add_object" /\ last'.name \in DOMAIN scene.objs
    \/ /\ last'.op \in {"remove_object", "get_object_pose", "set_object_pose"}
       /\ last'.name \notin DOMAIN scene.objs
    \/ last'.op = "set_object_pose" /\ last'.bad_shape
    \/ last'.op = "add_robot" /\ scene.robot.present

\* C3: add_object of a registered name, remove_object / get_object_pose /
\* set_object_pose of an unregistered name, set_object_pose of a pose that is
\* not 4x4 and add_robot on a scene with a robot raise, and leave the object
\* registry, the robot and every collision manager as they were.
C3_RejectedCallLeavesSceneUnchanged ==
    [][ Rejected => /\ last'.res = "ValueError"
                    /\ scene'.objs = scene.objs
                    /\ scene'.robot = scene.robot
                    /\ Managers(scene') = Managers(scene) ]_vars

C3_Witness ==
    /\ last.op = "set_object_pose" /\ last.bad_shape /\ last.res = "ValueError"
    /\ last.name \in DOMAIN scene.objs
    /\ scene.robot.present

\* C4: after a successful attach_object_on_gripper(name, only_gripper) the
\* object's geometry is out of the object manager, in the gripper manager, in
\* the robot manager exactly when only_gripper is false, the scene and the
\* gripper are marked attached and the gripper's attached_obj_name is name.
C4_AttachMovesGeometry ==
    (last.op = "attach_object_on_gripper" /\ last.res = "ok")
    => /\ last.name \notin DOMAIN scene.obj_collision_mngr.objs
       /\ last.name \in DOMAIN scene.gripper_collision_mngr.objs
       /\ (last.name \in DOMAIN scene.robot_collision_mngr.objs) <=> ~last.only_gripper
       /\ scene.is_attached
       /\ scene.robot.gripper.is_attached
       /\ scene.robot.gripper.attached_obj_name = last.name

\* C5: attach_object_on_gripper fails on a scene without a robot, on a robot
\* without a gripper and on an unregistered name, and then leaves the attach
\* flag, the object registry and the collision managers as they were.
C5_FailedAttachLeavesSceneUnchanged ==
    [][ ( /\ last'.op = "attach_object_on_gripper"
          /\ \/ ~scene.robot.present
             \/ ~scene.robot.has_gripper
             \/ last'.name \notin DOMAIN scene.objs )
        => /\ last'.res # "ok"
           /\ scene'.is_attached = scene.is_attached
           /\ scene'.objs = scene.objs
           /\ Managers(scene') = Managers(scene) ]_vars

\* C6: a detach that follows an attach(name) with the same only_gripper puts
\* the object back in the registry and in the object manager, leaves it in
\* neither the robot nor the gripper manager, and clears the attach state.
C6_DetachReversesAttach ==
    [][ ( /\ last.op = "attach_object_on_gripper" /\ last.res = "ok"
          /\ last'.op = "detach_object_from_gripper" /\ last'.res = "ok"
          /\ last'.only_gripper = last.only_gripper )
        => /\ last.name \in DOMAIN scene'.objs
           /\ last.name \in DOMAIN scene'.obj_collision_mngr.objs
           /\ last.name \notin DOMAIN scene'.robot_collision_mngr.objs
           /\ last.name \notin DOMAIN scene'.gripper_collision_mngr.objs
           /\ ~scene'.is_attached
           /\ scene'.robot.gripper.attached_obj_name = "None" ]_vars

\* C7: detach_object_from_gripper with no object attached raises and leaves
\* the collision managers, the robot's per-link info and the gripper info
\* as they were.
C7_DetachOfNothingLeavesSceneUnchanged ==
    [][ (last'.op = "detach_object_from_gripper" /\ ~scene.is_attached)
        => /\ last'.res # "ok"
           /\ Managers(scene') = Managers(scene)
           /\ scene'.robot.info = scene.robot.info
           /\ scene'.robot.gripper.info = scene.robot.gripper.info ]_vars

\* C8: reset() returns normally on every scene and leaves it as a freshly
\* constructed one.
C8_ResetGivesFreshScene ==
    (last.op = "reset") => (last.res = "ok" /\ scene = SceneManager /\ logical_states = EmptyStates)

\* C9: after set_robot_eef_pose, set_gripper_pose or set_gripper_tcp_pose every
\* entry of the robot and gripper managers, the attached object's included,
\* has the transform of its live pose in robot.info / gripper.info.
C9_ManagersFollowPoseCache ==
    (last.op \in {"set_robot_eef_pose", "set_gripper_pose", "set_gripper_tcp_pose"} /\ last.res = "ok")
    => /\ \A k \in DOMAIN scene.robot_collision_mngr.objs :
             k \in DOMAIN scene.robot.info[geom]
                 => scene.robot_collision_mngr.objs[k] = scene.robot.info[geom][k]
       /\ \A k \in DOMAIN scene.gripper_collision_mngr.objs :
             k \in DOMAIN scene.robot.gripper.info
                 => scene.gripper_collision_mngr.objs[k] = scene.robot.gripper.info[k]

\* C10: the planner returns: it makes at most total_cnt retries after the
\* first sweep, and when its last sweep ends farther than pos_sensitivity from
\* the goal it returns no path, is_get_path False and no target positions.
C10_PlannerTerminates ==
    /\ [](/\ planner.cnt <= total_cnt + 1
          /\ (planner.pc = "done"
                  /\ compute_pose_error(planner.cfg.goal, planner.cur_fk) >= pos_sensitivity)
              => (planner.paths.none /\ planner.target_posistions.none
                  /\ ~planner.is_get_path))
    /\ <>(planner.pc = "done")

C10_Witness ==
    /\ planner.pc = "done"
    /\ planner.cnt = total_cnt + 1
    /\ planner.paths.none
    /\ ~planner.is_get_path

\* C11: whenever the planner reports success (is_get_path True), whatever the
\* resolution, the returned path is not empty and the forward-kinematics
\* position of its last configuration is within pos_sensitivity of the goal.
C11_SuccessPathEndsAtGoal ==
    (planner.pc = "done" /\ planner.is_get_path)
    => /\ ~planner.paths.none
       /\ Len(planner.paths.v) >= 1
       /\ compute_pose_error(planner.cfg.goal, planner.paths.v[Len(planner.paths.v)])
              < pos_sensitivity

\* the pose-error norm at joints q of the running call
IkErr(q) == Abs(calc_pose_error(ik.target, forward_kinematics(ik.chain, q)))

\* C12: when Newton-Raphson IK runs past maxIter it returns, and the joints it
\* returns have the smallest pose-error norm of all iterates, the seed included.
C12_NrReturnsBestIterate ==
    (ik.pc = "done" /\ ik.method = "NR" /\ ik.iterator > ik.maxIter)
    => \A i \in 1..Len(ik.iterates) : IkErr(ik.current_joints) <= IkErr(ik.iterates[i])

\* a pass of the LM loop that computes a step
LmStepTaken ==
    /\ ik.method = "LM" /\ ik.pc = "loop"
    /\ ik'.iterator = ik.iterator + 1 /\ ik'.iterator <= ik.maxIter

\* after the loop of LM has ended nothing is stepped any more
LmStopped ==
    (ik.method = "LM" /\ ik.pc \in {"return", "done"})
    => (ik'.current_joints = ik.current_joints /\ ik'.iterator = ik.iterator)

\* C13: in Levenberg-Marquardt IK every accepted step strictly decreases Ek;
\* the first step whose new Ek is not strictly smaller ends the loop at once,
\* no further step is attempted, and the joints returned are the joints held
\* before that step.
C13_LmRejectedStepRestoresJoints ==
    [][ /\ LmStepTaken
            => IF Ek_of(ik'.err) < ik.Ek
               THEN ik'.pc = "loop" /\ ik'.Ek < ik.Ek /\ ~ik'.rejected
               ELSE ik'.pc = "return" /\ ik'.rejected
                    /\ ik'.current_joints = ik.current_joints
        /\ LmStopped ]_vars

\* C13, amended: as above, but the joints returned after the rejected step are
\* (q + dq) - dq as floating point computes it, q being the joints held before
\* the step: q up to rounding, not always q itself.
C13_LmRejectedStepSubtractsDq ==
    [][ /\ LmStepTaken
            => IF Ek_of(ik'.err) < ik.Ek
               THEN ik'.pc = "loop" /\ ik'.Ek < ik.Ek /\ ~ik'.rejected
               ELSE ik'.pc = "return" /\ ik'.rejected
                    /\ ik'.current_joints = fl(fl(ik.current_joints + ik'.dq) - ik'.dq)
        /\ LmStopped ]_vars

C13_Witness ==
    /\ ik.method = "LM" /\ ik.pc = "done" /\ ik.rejected
    /\ Len(ik.iterates) >= 2
    /\ ik.dq # 0
    /\ ik.current_joints # ik.iterates[Len(ik.iterates) - 1]

\* the squared norm of el = [R21 - R12, R02 - R20, R10 - R01]
NormEl2(R) ==
    (R[3][2] - R[2][3]) * (R[3][2] - R[2][3]) + (R[1][3] - R[3][1]) * (R[1][3] - R[3][1])
        + (R[2][1] - R[1][2]) * (R[2][1] - R[1][2])

\* C14: rot_to_omega takes its branch by the norm of el: at most EPS with all
\* three diagonal entries positive gives the zero vector; at most EPS with a
\* diagonal entry that is not positive gives (pi/2) [R00+1, R11+1, R22+1]; the
\* atan2 formula, which divides by the norm, is used only above EPS.
C14_RotToOmegaBranches ==
    (calc.fn = "calc_pose_error")
    => LET R == calc.out.rot_err
           small == NormEl2(R) <= calc.EPS * calc.EPS
           positive == R[1][1] > 0 /\ R[2][2] > 0 /\ R[3][3] > 0
       IN  /\ (small /\ positive) => calc.out.omega = ZeroOmega
           /\ (small /\ ~positive)
                  => calc.out.omega =
                         [k |-> 6, n2 |-> 1, v |-> << R[1][1] + 1, R[2][2] + 1, R[3][3] + 1 >>]
           /\ (calc.out.branch = "general") <=> ~small
           /\ (calc.out.branch = "general") => calc.out.omega.n2 > 0

\* a half turn about Z takes the singular branch
C14_Witness ==
    /\ calc.fn = "calc_pose_error"
    /\ calc.EPS = 0
    /\ calc.out.rot_err = << <<-1, 0, 0>>, <<0, -1, 0>>, <<0, 0, 1>> >>
    /\ calc.out.omega = [k |-> 6, n2 |-> 1, v |-> <<0, 0, 2>>]

\* C15: the force-closure test accepts a contact pair only if the separation
\* is at most the gripper's max width and both angles between the inward
\* normals and the contact line are at most limit_angle; a pair with zero
\* angles and separation below max width is accepted; a pair with separation
\* above max width is rejected whatever its normals.
C15_ForceClosureAcceptsOnlyWithinLimits ==
    (calc.fn = "_is_force_closure")
    => LET out == calc.out
           zero == [k |-> 0, s |-> 1, a |-> 1, b |-> 1]
       IN  /\ out.res => /\ out.distance2 <= calc.max_width * calc.max_width
                         /\ angle_le(out.angle_A2AB, calc.limit_angle)
                         /\ angle_le(out.angle_B2AB, calc.limit_angle)
           /\ ( /\ angle_le(out.angle_A2AB, zero)
                /\ angle_le(out.angle_B2AB, zero)
                /\ out.distance2 < calc.max_width * calc.max_width ) => out.res
           /\ (out.distance2 > calc.max_width * calc.max_width) => ~out.res

\* C16: every grasp pose set has a pre-grasp pose with the grasp rotation R at
\* p - d * R[:,2] and a post-grasp pose with rotation R at p + [0, 0, d],
\* where p is the grasp position and d the retreat distance.
C16_PreAndPostGraspOffsets ==
    (calc.fn = "get_all_grasp_poses")
    => \A i \in 1..Len(calc.out) :
          LET g == calc.out[i]
              R == g.grasp.R
              d == calc.retreat_distance
          IN  /\ g.pre_grasp.R = R
              /\ \A j \in 1..3 : g.pre_grasp.p[j] = g.grasp.p[j] - d * R[j][3]
              /\ g.post_grasp.R = R
              /\ g.post_grasp.p = <<g.grasp.p[1], g.grasp.p[2], g.grasp.p[3] + d>>

\* a grasp whose tool axis is the world X axis: the pre-grasp pose is moved
\* along X and the post-grasp pose along Z
C16_Witness ==
    /\ calc.fn = "get_all_grasp_poses"
    /\ calc.retreat_distance = 2
    /\ \E i \in 1..Len(calc.out) :
          /\ Col3(calc.out[i].grasp.R) = <<1, 0, 0>>
          /\ calc.out[i].pre_grasp.p = Sub3(calc.out[i].grasp.p, <<2, 0, 0>>)
          /\ calc.out[i].post_grasp.p = Add3(calc.out[i].grasp.p, <<0, 0, 2>>)

\* C20: get_possible_transitions yields one successor scene for every
\* grasp-pose set; in it the picked object's pose is (default gripper pose) x
\* inverse(gripper pose at grasp) x (the object's pose before the pick), the
\* former supporting object's support list no longer contains the picked
\* object, the gripper's logical state records holding = the picked object and
\* the picked object's logical state records held = True.
C20_TransitionMovesAndMarksPickedObject ==
    (pick.op = "get_possible_transitions")
    => LET obj == pick.pick_obj
           supporting_obj == logical_states.st[obj]["on"]
       IN  /\ pick.out.res = "ok"
           /\ Len(pick.out.yielded) = Len(pick.grasp_pose_list)
           /\ \A i \in 1..Len(pick.out.yielded) :
                 LET next_scene == pick.out.yielded[i]
                     st == next_scene.logical_states.st
                 IN  /\ next_scene.objs[obj] =
                            dot(dot(default_gripper_pose, inv(pick.grasp_pose_list[i].grasp)),
                                scene.objs[obj])
                     /\ ~InSeq(obj, st[supporting_obj]["support"])
                     /\ st[gripper_name]["holding"] = obj
                     /\ Has(st[obj], "held") /\ st[obj]["held"] = TRUE

\* two grasp-pose sets with different grasp poses give two successor scenes
\* that put the picked object at different poses, both away from where it lay
C20_Witness ==
    /\ pick.op = "get_possible_transitions"
    /\ Len(pick.out.yielded) = 2
    /\ pick.out.yielded[1].objs[pick.pick_obj] # pick.out.yielded[2].objs[pick.pick_obj]
    /\ pick.out.yielded[1].objs[pick.pick_obj] # scene.objs[pick.pick_obj]
    /\ InSeq(pick.pick_obj, logical_states.st[support_obj_name]["support"])
    /\ pick.out.yielded[1].logical_states.st[pick.pick_obj] = Put(EmptyDict, "held", TRUE)

\* C17: get_possible_joint_path_level_3 returns a joint path exactly when the
\* four segments (default to pre-grasp, pre-grasp to grasp, grasp to
\* post-grasp, post-grasp to default) are all non-empty; the result then holds
\* the four segments under their labels, each planned from the last
\* configuration of the one before; with a segment missing no path is returned.
C17_PathReturnedIffAllSegments ==
    (pick.op = "level_3")
    => LET seg == pick.out.segments
           ret == pick.out.ret
           calls == pick.out.calls
           all == /\ seg.pre_grasp # << >> /\ seg.grasp # << >>
                  /\ seg.post_grasp # << >> /\ seg.default_grasp # << >>
       IN  /\ (pick.out.res = "ok" /\ ~ret.none) <=> all
           /\ ~ret.none
                 => /\ ret.pre_grasp = seg.pre_grasp /\ ret.grasp = seg.grasp
                    /\ ret.post_grasp = seg.post_grasp
                    /\ ret.default_grasp = seg.default_grasp
           /\ calls[1].start = init_qpos
           /\ \A k \in 2..Len(calls) :
                 LET prev == IF k = 2 THEN seg.pre_grasp
                             ELSE IF k = 3 THEN seg.grasp ELSE seg.post_grasp
                 IN  calls[k].start = prev[Len(prev)]

\* C18: whenever get_possible_joint_path_level_3 attached the picked object,
\* the attachment is rolled back when it is left: the gripper holds no
\* attached object and the picked object is registered in the scene again
\* under its own name at the pose it was picked from.
C18_AttachmentRolledBack ==
    (pick.op = "level_3" /\ pick.out.attached)
    => /\ ~scene.robot.gripper.is_attached
       /\ scene.robot.gripper.attached_obj_name = "None"
       /\ ~Has(scene.robot.gripper.info, pick.pick_obj)
       /\ Has(scene.objs, pick.pick_obj)
       /\ scene.objs[pick.pick_obj] = pick.pick_obj_pose

\* C19: compute_ik_solve_for_robot returns joint solutions and poses only when
\* each of the grasp, pre-grasp and post-grasp poses has a solution whose
\* end-effector pose matches the target and whose configuration is free of
\* collision; when a phase fails either check it returns (None, None).
C19_IkSolveNeedsAllThreePhases ==
    (pick.op = "compute_ik_solve_for_robot")
    => LET ret == pick.out.ret
           phases == {"grasp", "pre_grasp", "post_grasp"}
           matches(n) == forward_kin(eef_name, pick.thetas[n]) = pick.grasp_pose[n]
           free(n) == ~collide(set_robot_eef_pose(scene, pick.thetas[n]).s)
       IN  /\ ~ret.none
                 => \A n \in phases :
                       /\ matches(n) /\ free(n)
                       /\ ret.ik_solve[n] = pick.thetas[n]
                       /\ ret.grasp_pose_for_ik[n] = pick.grasp_pose[n]
           /\ (\E n \in phases : ~matches(n) \/ ~free(n)) => ret.none

\* three different configurations, each reaching its pose without collision
C19_Witness ==
    /\ pick.op = "compute_ik_solve_for_robot"
    /\ ~pick.out.ret.none
    /\ pick.thetas.grasp # pick.thetas.pre_grasp
    /\ pick.out.ret.ik_solve = pick.thetas
    /\ pick.out.ret.grasp_pose_for_ik = pick.grasp_pose

\* C21: get_possible_actions_level_1 yields exactly one pick action for each
\* scene object that is not the object being picked and is in no support or
\* static logical state, and none for any other object; an object whose
\* support list was emptied by a pick transition supports nothing any more and
\* is enumerated.
C21_Level1EnumeratesFreeObjects ==
    (pick.op = "get_possible_actions_level_1")
    => LET st == pick.logical_states.st
           supports(n) == Has(st[n], "support") /\ st[n]["support"] # << >>
           static(n) == Has(st[n], "static")
       IN  /\ pick.out.res = "ok"
           /\ \A n \in DOMAIN pick.objs :
                 pick.out.yielded[n] =
                     IF n # pick.scene_pick_obj_name /\ ~supports(n) /\ ~static(n)
                     THEN 1 ELSE 0

\* C25: in a sweep of the Cartesian planner a configuration is appended to the
\* path only after it passed the collision check and the joint-limit check; a
\* step that fails either check appends nothing and leaves the tracked
\* current transform unchanged, while its joint update stays in the running
\* joint state the next step starts from.
C25_OnlyCheckedConfigurationsAppended ==
    [][ (planner.pc = "step" /\ planner'.pc = "step" /\ planner'.step = planner.step + 1)
        => LET q == planner'.cur_qpos
               passed == collision_free(planner.cfg, q) /\ check_q_in_limits(planner.cfg, q)
               appended == Len(planner'.paths.v) = Len(planner.paths.v) + 1
           IN  /\ q = planner.cur_qpos
                       + dq_of(planner.waypoints[planner.step + 1] - planner.cur_fk)
               /\ appended => /\ passed
                              /\ planner'.paths.v = Append(planner.paths.v, q)
               /\ ~appended => planner'.paths = planner.paths
               /\ ~passed => /\ ~appended
                             /\ planner'.cur_fk = planner.cur_fk
                             /\ planner'.target_posistions = planner.target_posistions
      ]_vars

\* a sweep of three steps in which one step was appended and the last was refused
C25_Witness ==
    /\ planner.pc = "step"
    /\ planner.step = 3
    /\ Len(planner.paths.v) = 2
    /\ planner.cur_fk # planner.cur_qpos
    /\ planner.cfg.every = 1

\* C29: a configuration in which a link of the robot collides with an object
\* of the obstacle collision manager is not collision free, so no returned
\* path holds such a configuration.
C29_NoObstacleCollisionInPath ==
    (planner.pc = "done" /\ ~planner.paths.none)
    => \A i \in 2..Len(planner.paths.v) :
          planner.paths.v[i] \notin ObstacleColliding(planner.cfg)

\* C30: a returned path starts at the start configuration the caller gave,
\* also when the sweep that succeeded was a retry.
C30_PathStartsAtCurrentQ ==
    (planner.pc = "done" /\ ~planner.paths.none)
    => planner.paths.v[1] = planner.cfg.current_q

\* the number of joints that are not fixed among the first n frames
RECURSIVE NonFixedBefore(_, _)
NonFixedBefore(frames, n) ==
    IF n = 0 THEN 0
    ELSE NonFixedBefore(frames, n - 1) + (IF frames[n] # "fixed" THEN 1 ELSE 0)

\* C24: in forward kinematics of a list of frames with a non-empty angle
\* sequence the running index stays within 0..len(thetas)-1 and nothing is
\* raised; the k-th joint that is not fixed (k < len(thetas), counted from 0)
\* reads thetas[k]; every frame after the angles are used up reads
\* thetas[len(thetas)-1].
C24_AngleIndexStaysInRange ==
    (calc.fn = "_compute_FK")
    => LET out == calc.out
           n == Len(calc.thetas)
       IN  /\ out.res = "ok"
           /\ Len(out.used) = Len(calc.frames)
           /\ out.cnt \in 0..(n - 1)
           /\ \A i \in 1..Len(calc.frames) :
                 LET k == NonFixedBefore(calc.frames, i - 1)
                 IN  /\ out.used[i] \in 0..(n - 1)
                     /\ k < n => out.used[i] = k /\ out.angles[i] = calc.thetas[k + 1]
                     /\ k >= n => out.used[i] = n - 1 /\ out.angles[i] = calc.thetas[n]

\* three moving joints on two angles: the third reads the last angle again
C24_Witness ==
    /\ calc.fn = "_compute_FK"
    /\ calc.frames = <<"revolute", "revolute", "prismatic">>
    /\ Len(calc.thetas) = 2
    /\ calc.out.used = <<0, 1, 1>>
    /\ calc.out.res = "ok"

NoPairPasses ==
    /\ calc.fn = "contact_sampling"
    /\ \A sample \in surface_sampling(calc.mesh) : ~sample_passes(calc, sample)

\* C22: contact sampling that has started on a mesh none of whose sample
\* pairs passes the force-closure test comes to an end all the same.
C22_ContactSamplingTerminates ==
    NoPairPasses ~> (calc.fn = "contact_sampling" /\ calc.pc = "done")

\* C23: get_possible_transitions called with an empty action ends in the
\* configuration error "Not found any action!!" (a ValueError) and yields no
\* successor scene.
C23_EmptyActionIsConfigurationError ==
    (pick.op = "get_possible_transitions_of_action" /\ pick.action_empty)
    => /\ pick.out.res = "ValueError"
       /\ pick.out.yielded = << >>

\* the angles of the poses swept around the j-th contact pair
SweptAngles(j) ==
    [i \in 1..calc.n |-> calc.out.poses[(j - 1) * calc.n + i].z]

\* angle a is below angle b
AngleLess(a, b) == a.num * b.den < b.num * a.den

\* a sweep of n angles over lo..hi (in units of pi/2): rising, within the
\* range, from lo, and with two angles or more up to hi
Sweeps(angles, lo, hi) ==
    /\ \A i \in DOMAIN angles :
          /\ lo * angles[i].den <= angles[i].num
          /\ angles[i].num <= hi * angles[i].den
    /\ \A i \in DOMAIN angles : i > 1 => AngleLess(angles[i - 1], angles[i])
    /\ Len(angles) >= 1 => angles[1].num = lo * angles[1].den
    /\ Len(angles) >= 2 => angles[Len(angles)].num = hi * angles[Len(angles)].den

TcpPosesSwept(pick_lo, pick_hi, grasp_lo, grasp_hi) ==
    /\ (calc.fn = "get_tcp_poses" /\ calc.out.res = "ok")
       => /\ Len(calc.out.poses) = calc.n * Len(calc.contact_points)
          /\ \A j \in 1..Len(calc.contact_points) :
                /\ Sweeps(SweptAngles(j), pick_lo, pick_hi)
                /\ \A i \in 1..calc.n :
                      calc.out.poses[(j - 1) * calc.n + i].center2
                         = Add3(calc.contact_points[j][1], calc.contact_points[j][2])
    /\ (calc.fn = "generate_tcp_poses")
       => /\ Len(calc.out.poses) = calc.n
          /\ Sweeps(SweptAngles(1), grasp_lo, grasp_hi)

C27_WaypointsRetreatFromGraspPose ==
    (calc.fn = "get_grasp_waypoints" /\ calc.out.is_success_filtered)
    => LET w == calc.out.waypoints
           d == calc.desired_distance
       IN  /\ w.post_grasp = [R |-> w.grasp.R, p |-> Add3(w.grasp.p, <<0, 0, d>>)]
           /\ w.pre_grasp = [R |-> w.grasp.R,
                             p |-> Sub3(w.grasp.p, Scale3(d, Col3(w.grasp.R)))]

\* C28: generate_grasps evaluates at most num_grasp * n_trials TCP poses
\* before it is exhausted, and filter_grasps looks no further than the first
\* candidate that passes its checks.
C28_CandidatesBoundedAndFirstPassTaken ==
    (calc.fn = "get_grasp_waypoints")
    => /\ calc.out.evaluated <= calc.num_grasp * calc.n_trials
       /\ calc.out.is_success_filtered
          => /\ filter_outcome(calc.env, calc.out.checked) = "passes"
             /\ \A j \in 1..(calc.out.checked - 1) :
                   filter_outcome(calc.env, j) # "passes"

====
